---- MODULE Spec2Model ----
(***************************************************************************)
(* Model of the agents-sdk turn execution engine: Agent.Validate and the   *)
(* handoff graph (pkg/agents agent.go), Runner.Run / executeLoop /         *)
(* executeTools / validateGuardrails (pkg/agents runner.go).               *)
(***************************************************************************)
EXTENDS Integers, Sequences, FiniteSets, TLC

\* ------------------------------------------------------------------ bounds
NumAgents == 3          \* agents in a generated handoff graph
MaxEdges == 4           \* handoff edges in a generated handoff graph
MaxTurnsBound == 2      \* largest turn budget the runner is configured with
MaxBatch == 2           \* largest number of tool calls in one reply
MaxGuardrails == 2      \* guardrails declared by the agent of a generated gate
MaxHistory == 2         \* messages in the history of a generated gate

AgentIds == 1..NumAgents

\* ------------------------------------------------------------------ values
Nil == "nil"
NoError == [err |-> "nil", arg |-> "", cause |-> ""]
Error(kind, arg) == [err |-> kind, arg |-> arg, cause |-> ""]
\* Agent.Validate was not called yet
NotValidated == [err |-> "pending", arg |-> "", cause |-> ""]

\* fmt.Errorf("... %T ...: %w", subject, cause): an error that wraps another
Wrap(kind, arg, cause) == [err |-> kind, arg |-> arg, cause |-> cause]

\* errors.go
ErrInvalidAgentName == Error("agent name cannot be empty", "")
ErrInvalidModel == Error("model cannot be empty", "")
ErrMaxTurnsExceeded == Error("maximum turns exceeded", "")

\* RunMetrics{}
ZeroMetrics == [TotalTurns |-> 0, TotalTokens |-> 0, ToolCalls |-> 0, Handoffs |-> 0]

\* a nil *RunResult
NoResult == [FinalOutput |-> Nil, Messages |-> <<>>, Agent |-> 0, Metrics |-> ZeroMetrics]

\* no *providers.Completion: the local of executeLoop before the call of a turn
NoCompletion ==
    [Message |-> [Role |-> "", Content |-> ""], Usage |-> 0, ToolCalls |-> <<>>,
     Handoff |-> Nil, StructuredOutput |-> Nil]

RECURSIVE SeqToSet(_)
SeqToSet(s) == IF s = <<>> THEN {} ELSE {Head(s)} \cup SeqToSet(Tail(s))

\* ------------------------------------------------------------------- tools
\* Three tool implementations behind the Tool interface: "lookup" returns a
\* value, "charge" runs and returns an error (FunctionTool.Execute then
\* returns a nil result), "broken" has an invalid function value.
\* "ghost" is a name the provider may ask for that no agent declares.
ToolNames == {"lookup", "charge", "ghost"}

\* FunctionTool.Validate: the name is empty or the function is invalid.
ToolValidate(tool) ==
    IF tool = "" THEN Error("tool name cannot be empty", "")
    ELSE IF tool = "broken" THEN Error("invalid function", "")
    ELSE NoError

\* Tool.Execute of the three implementations: (result, err).
ToolExecute(tool) ==
    IF tool = "lookup" THEN [result |-> "found", err |-> NoError]
    ELSE [result |-> Nil, err |-> Error("charge declined", "")]

\* no second Run
NoOther == [pc |-> "absent"]

\* no call of GetHandoff made by the program yet
NoLookup == [agent |-> 0, name |-> "", got |-> [agent |-> 0, ok |-> FALSE]]

\* no validateHandoffs call in progress
NoWalk == [stack |-> <<>>, visited |-> {}, err |-> NoError]

VARIABLES
    agents,          \* id -> Agent {Name, Model, Tools, Handoffs, Guardrails, OutputType, handoffMap}
    validateResult,  \* what Agent.Validate returned for agent 1, or NotValidated
    pc,              \* position of the modelled call
    maxTurns,        \* Runner.maxTurns
    parallelTools,   \* Runner.parallelTools
    root,            \* the agent passed to Run
    input,           \* the input passed to Run
    ctxCancelled,    \* the caller's context (RunContext.Context) is cancelled
    session,         \* Runner.session: the stored messages, or Nil without a session
    turn,            \* executeLoop: turn
    currentAgent,    \* executeLoop: currentAgent
    messages,        \* executeLoop: messages
    metrics,         \* executeLoop: metrics
    completion,      \* executeLoop: completion of the current turn
    toolCalls,       \* executeTools: toolCalls
    responses,       \* executeTools: responses
    pending,         \* executeTools: indexes of the calls that have not run yet
    groupErr,        \* executeTools: first non-nil error a g.Go function returned
    result,          \* the *RunResult Run returned, or Nil
    err,             \* the error Run returned
    providerCalls,   \* number of provider.Complete calls made by this run
    lastCall,        \* the arguments of the last provider.Complete call
    nonTerminalOnly, \* every reply so far was a tool-call, resolvable-handoff or awaited-contract reply
    parResponses,    \* dispatch comparison: the responses of the concurrent pass
    deadlineExpired, \* Run: the context.WithTimeout(ctx, r.timeout) context is done
    switches,        \* number of times executeLoop assigned currentAgent = newAgent
    dispatched,      \* number of tool calls executeLoop passed to executeTools
    guardrailCalls,  \* validateGuardrails: the Guardrail.Validate calls made, in order
    gateErr,         \* validateGuardrails: the error returned
    resultChan,      \* RunAsync: the buffered channel, as the sequence of values in it
    chanClosed,      \* RunAsync: resultChan is closed
    received,        \* RunAsync: what the consumer received from the channel
    other,           \* a second Run in flight on the same agents: its own variables while it is not scheduled
    lookup,          \* the last call of Agent.GetHandoff made by the program: receiver, name, what it returned
    walk             \* validateHandoffs in progress: the call stack (agent, next handoff index), the visited map, the error being returned

vars == <<agents, validateResult, pc, maxTurns, parallelTools, root, input, ctxCancelled, session,
          turn, currentAgent, messages, metrics, completion, toolCalls, responses,
          pending, groupErr, result, err, providerCalls, lastCall, nonTerminalOnly,
          parResponses, deadlineExpired, switches, dispatched,
          guardrailCalls, gateErr, resultChan, chanClosed, received, other, lookup, walk>>

runVars == <<maxTurns, parallelTools, root, input, ctxCancelled, session, turn, currentAgent,
             messages, metrics, completion, toolCalls, responses, pending, groupErr,
             result, err, providerCalls, lastCall, nonTerminalOnly, parResponses,
             deadlineExpired, switches, dispatched, guardrailCalls, gateErr,
             resultChan, chanClosed, received, other, lookup, walk>>

\* ------------------------------------------------------------------ agents
BaseNames == <<"a", "b", "c", "d", "e">>

AllNames == {""} \cup {BaseNames[i] : i \in 1..Len(BaseNames)}
                 \cup {"triage", "billing", "report", "ghost"}

\* the map NewAgent / WithHandoffs build: a later handoff of the same name
\* overwrites an earlier one; 0 is "no entry"
RECURSIVE buildHandoffMap(_, _, _)
buildHandoffMap(names, handoffs, m) ==
    IF handoffs = <<>> THEN m
    ELSE buildHandoffMap(names, Tail(handoffs),
                         [m EXCEPT ![names[Head(handoffs)]] = Head(handoffs)])

EmptyHandoffMap == [n \in AllNames |-> 0]

\* variant: the name is resolved among all agents, not the handoff set of a
GetHandoff_anyAgent(a, name) ==
    IF \E b \in DOMAIN agents : agents[b].Name = name
    THEN [agent |-> CHOOSE b \in DOMAIN agents : agents[b].Name = name, ok |-> TRUE]
    ELSE [agent |-> 0, ok |-> FALSE]

\* Agent.GetHandoff: (agent, ok)
GetHandoff(a, name) ==
    IF name \in DOMAIN agents[a].handoffMap /\ agents[a].handoffMap[name] # 0
    THEN [agent |-> agents[a].handoffMap[name], ok |-> TRUE]
    ELSE [agent |-> 0, ok |-> FALSE]

\* validateHandoffs with the shared visited map threaded through the walk:
\* the name is added on entry and deleted (defer) when the call returns.
RECURSIVE validateHandoffs(_, _), validateHandoffsLoop(_, _)
\* variant: the name is not deleted from visited when the call returns
validateHandoffs_noDelete(a, visited) ==
    IF agents[a].Name \in visited
    THEN [err |-> Error("circular handoff detected", agents[a].Name), visited |-> visited]
    ELSE validateHandoffsLoop(agents[a].Handoffs, visited \cup {agents[a].Name})

validateHandoffs(a, visited) ==
    IF agents[a].Name \in visited
    THEN [err |-> Error("circular handoff detected", agents[a].Name), visited |-> visited]
    ELSE LET r == validateHandoffsLoop(agents[a].Handoffs, visited \cup {agents[a].Name})
         IN  [err |-> r.err, visited |-> r.visited \ {agents[a].Name}]

\* variant: the walk goes on after a handoff reported a cycle, and the
\* error of the last failing handoff is the one returned
validateHandoffsLoop_keepsWalking(handoffs, visited) ==
    IF handoffs = <<>> THEN [err |-> NoError, visited |-> visited]
    ELSE LET r == validateHandoffs(Head(handoffs), visited)
             rest == validateHandoffsLoop(Tail(handoffs), r.visited)
         IN  IF rest.err # NoError THEN rest ELSE r

validateHandoffsLoop(handoffs, visited) ==
    IF handoffs = <<>> THEN [err |-> NoError, visited |-> visited]
    ELSE LET r == validateHandoffs(Head(handoffs), visited)
         IN  IF r.err # NoError THEN r
             ELSE validateHandoffsLoop(Tail(handoffs), r.visited)

RECURSIVE validateTools(_)
validateTools(tools) ==
    IF tools = <<>> THEN NoError
    ELSE IF ToolValidate(Head(tools)) # NoError
         THEN Error("invalid tool", Head(tools))
         ELSE validateTools(Tail(tools))

\* Agent.Validate
Validate(a) ==
    IF agents[a].Name = "" THEN ErrInvalidAgentName
    ELSE IF agents[a].Model = "" THEN ErrInvalidModel
    ELSE IF validateTools(agents[a].Tools) # NoError THEN validateTools(agents[a].Tools)
    ELSE validateHandoffs(a, {}).err

\* NewAgent(name, WithModel, WithTools, WithHandoffs, WithGuardrails, WithOutputType)
NewAgent(names, a, model, tools, handoffs, guardrails, outputType) ==
    [Name |-> names[a], Model |-> model, Tools |-> tools, Handoffs |-> handoffs,
     Guardrails |-> guardrails, OutputType |-> outputType,
     handoffMap |-> buildHandoffMap(names, handoffs, EmptyHandoffMap)]

\* ------------------------------------------------- inputs of Agent.Validate
\* Handoff graphs over NumAgents agents with at most MaxEdges edges (self
\* loops and cycles included, as WithHandoffs applied to an existing agent
\* can build them); agent 1 is the agent Validate is called on.
Edges == AgentIds \X AgentIds

Graphs == {g \in SUBSET Edges : Cardinality(g) <= MaxEdges}

RECURSIVE SetToSeq(_)
SetToSeq(S) ==
    IF S = {} THEN <<>>
    ELSE LET m == CHOOSE x \in S : \A y \in S : x <= y
         IN  <<m>> \o SetToSeq(S \ {m})

HandoffsOf(g, a) == SetToSeq({b \in AgentIds : <<a, b>> \in g})

UniqueNames == [a \in AgentIds |-> BaseNames[a]]

\* distinct names, or one agent carrying the name of another, or an unnamed root
NameAssignments ==
    {UniqueNames, [UniqueNames EXCEPT ![1] = ""]}
    \cup {[UniqueNames EXCEPT ![p[2]] = UniqueNames[p[1]]] :
             p \in {q \in AgentIds \X AgentIds : q[1] # q[2]}}

RootModels == {"gpt-4", ""}

RootTools == {<<"lookup">>, <<"lookup", "broken">>}

IdleRun ==
    /\ maxTurns = 0 /\ parallelTools = FALSE /\ root = 1 /\ input = ""
    /\ ctxCancelled = FALSE /\ session = Nil /\ turn = 0 /\ currentAgent = 1 /\ messages = <<>>
    /\ metrics = ZeroMetrics
    /\ completion = NoCompletion /\ toolCalls = <<>> /\ responses = <<>> /\ pending = {}
    /\ groupErr = NoError /\ result = NoResult /\ err = NoError /\ providerCalls = 0
    /\ lastCall = Nil /\ nonTerminalOnly = TRUE /\ parResponses = Nil
    /\ deadlineExpired = FALSE /\ switches = 0 /\ dispatched = 0
    /\ guardrailCalls = <<>> /\ gateErr = NoError
    /\ resultChan = <<>> /\ chanClosed = FALSE /\ received = <<>>
    /\ other = NoOther /\ lookup = NoLookup /\ walk = NoWalk

InitValidate ==
    /\ \E g \in Graphs, names \in NameAssignments, model \in RootModels, tools \in RootTools :
         agents = [a \in AgentIds |->
                     NewAgent(names, a, IF a = 1 THEN model ELSE "gpt-4",
                              IF a = 1 THEN tools ELSE <<>>, HandoffsOf(g, a), <<>>, FALSE)]
    /\ validateResult = NotValidated
    /\ pc = "validate"
    /\ IdleRun

CallValidate ==
    /\ pc = "validate"
    /\ validateResult' = Validate(1)
    /\ pc' = "validated"
    /\ UNCHANGED <<agents, runVars>>

NextValidate == CallValidate

SpecValidate == InitValidate /\ [][NextValidate]_vars

\* --------------------------------------------------------------- the runner
\* The agents of a run: triage hands off to billing and report, billing
\* declares a guardrail and hands off to report, report declares an output
\* contract.
RunNames == <<"triage", "billing", "report">>

RunAgents ==
    <<NewAgent(RunNames, 1, "gpt-4", <<"lookup", "charge">>, <<2, 3>>, <<>>, FALSE),
      NewAgent(RunNames, 2, "gpt-4", <<"lookup">>, <<3>>, <<"noSecrets">>, FALSE),
      NewAgent(RunNames, 3, "gpt-4", <<>>, <<>>, <<>>, TRUE)>>

\* the input text matters to the guardrails of the root agent only
Inputs(a) == IF RunAgents[a].Guardrails = <<>> THEN {"hi"} ELSE {"hi", "secret"}

Texts == {"ok", "secret"}

\* Guardrail.Validate of four implementations: "noSecrets", "shortOnly" and
\* "noFailures" refuse some contents and give their reason, "allowAll"
\* refuses nothing
GuardrailValidate(guardrail, content) ==
    IF guardrail = "noSecrets" /\ content \in {"secret", "long secret"}
    THEN Error("secret found", "")
    ELSE IF guardrail = "shortOnly" /\ content \in {"long", "long secret"}
    THEN Error("too long", "")
    ELSE IF guardrail = "noFailures" /\ content = "<nil>"
    THEN Error("failure reported", "")
    ELSE NoError

\* NoOpProvider: Usage.TotalTokens of a reply
TokensPerReply == 15

\* ToolCall ids are opaque tokens, unique within a reply
CallIds == <<"call_d", "call_c", "call_b", "call_a">>

ToolCall(id, name) == [ID |-> id, Name |-> name]

Batches ==
    UNION {{[i \in 1..n |-> ToolCall(CallIds[i], names[i])] : names \in [1..n -> ToolNames]} :
             n \in 1..MaxBatch}

HandoffTargets == {"triage", "billing", "report", "ghost"}

Reply(content, calls, handoff, structured) ==
    [Message |-> [Role |-> "assistant", Content |-> content],
     Usage |-> TokensPerReply, ToolCalls |-> calls, Handoff |-> handoff,
     StructuredOutput |-> structured]

\* What the Completion Provider may return: one signal, or several at once.
Replies ==
    {Reply(t, <<>>, Nil, Nil) : t \in Texts}
    \cup {Reply("", b, Nil, Nil) : b \in Batches}
    \cup {Reply(t, <<>>, h, Nil) : t \in Texts, h \in HandoffTargets}
    \cup {Reply("", <<>>, Nil, "json")}
    \cup {Reply("", <<ToolCall(CallIds[1], "lookup")>>, h, s) :
            h \in {Nil, "billing"}, s \in {Nil, "json"}}

Message(role, content, id) == [Role |-> role, Content |-> content, tool_call_id |-> id]

\* messageFromProviders
messageFromProviders(msg) == Message(msg.Role, msg.Content, Nil)

\* variant: only the latest message is converted for the provider
messagesToProviders_lastOnly(msgs) ==
    IF msgs = <<>> THEN <<>>
    ELSE <<[Role |-> msgs[Len(msgs)].Role, Content |-> msgs[Len(msgs)].Content,
            tool_call_id |-> msgs[Len(msgs)].tool_call_id]>>

\* messagesToProviders
messagesToProviders(msgs) ==
    [i \in 1..Len(msgs) |->
        [Role |-> msgs[i].Role, Content |-> msgs[i].Content, tool_call_id |-> msgs[i].tool_call_id]]

\* toolCallsFromProviders
toolCallsFromProviders(calls) ==
    [i \in 1..Len(calls) |-> [ID |-> calls[i].ID, Name |-> calls[i].Name]]

\* convertToolsToProviders
convertToolsToProviders(tools) == [i \in 1..Len(tools) |-> [Name |-> tools[i]]]

\* fmt.Sprintf("%v", v)
Sprintf(v) == IF v = Nil THEN "<nil>" ELSE v

\* Runner.findTool: the first declared tool of that name, or Nil
RECURSIVE findToolLoop(_, _)
findToolLoop(tools, name) ==
    IF tools = <<>> THEN Nil
    ELSE IF Head(tools) = name THEN Head(tools)
    ELSE findToolLoop(Tail(tools), name)

findTool(agent, name) == findToolLoop(agents[agent].Tools, name)

\* Runner.validateGuardrails
RECURSIVE validateGuardrailsLoop(_, _)
validateGuardrailsLoop(guardrails, content) ==
    IF guardrails = <<>> THEN NoError
    ELSE IF GuardrailValidate(Head(guardrails), content) # NoError
         THEN Wrap("guardrail failed", Head(guardrails),
                   GuardrailValidate(Head(guardrails), content).err)
         ELSE validateGuardrailsLoop(Tail(guardrails), content)

\* variant: the guardrails are applied only when the last message is a
\* user message
validateGuardrails_userOnly(agent, msgs) ==
    IF Len(msgs) = 0 \/ Len(agents[agent].Guardrails) = 0 THEN NoError
    ELSE IF msgs[Len(msgs)].Role # "user" THEN NoError
    ELSE validateGuardrailsLoop(agents[agent].Guardrails, msgs[Len(msgs)].Content)

validateGuardrails(agent, msgs) ==
    IF Len(msgs) = 0 \/ Len(agents[agent].Guardrails) = 0 THEN NoError
    ELSE validateGuardrailsLoop(agents[agent].Guardrails, msgs[Len(msgs)].Content)

ZeroResponse == [ToolCallID |-> "", Content |-> Nil, Error |-> NoError]

\* variant: the function returns the tool's error to the group
goFunc_returnsErr(agent, call) ==
    IF findTool(agent, call.Name) = Nil
    THEN [response |-> [ToolCallID |-> call.ID, Content |-> Nil,
                        Error |-> Error("tool not found", call.Name)],
          ret |-> Error("tool not found", call.Name)]
    ELSE LET r == ToolExecute(findTool(agent, call.Name))
         IN  [response |-> [ToolCallID |-> call.ID, Content |-> r.result, Error |-> r.err],
              ret |-> r.err]

\* the function handed to g.Go: the response it stores in its slot and the
\* error it returns to the group
goFunc(agent, call) ==
    IF findTool(agent, call.Name) = Nil
    THEN [response |-> [ToolCallID |-> call.ID, Content |-> Nil,
                        Error |-> Error("tool not found", call.Name)],
          ret |-> NoError]
    ELSE LET r == ToolExecute(findTool(agent, call.Name))
         IN  [response |-> [ToolCallID |-> call.ID, Content |-> r.result, Error |-> r.err],
              ret |-> NoError]

\* variant: the sequential loop wraps the tool's error
seqBody_wrapsError(agent, call) ==
    IF findTool(agent, call.Name) = Nil
    THEN [ToolCallID |-> call.ID, Content |-> Nil, Error |-> Error("tool not found", call.Name)]
    ELSE LET r == ToolExecute(findTool(agent, call.Name))
         IN  [ToolCallID |-> call.ID, Content |-> r.result,
              Error |-> IF r.err = NoError THEN NoError
                        ELSE Error("tool execution failed", r.err.err)]

\* the body of the sequential loop: the response stored in slot i
seqBody(agent, call) ==
    IF findTool(agent, call.Name) = Nil
    THEN [ToolCallID |-> call.ID, Content |-> Nil, Error |-> Error("tool not found", call.Name)]
    ELSE LET r == ToolExecute(findTool(agent, call.Name))
         IN  [ToolCallID |-> call.ID, Content |-> r.result, Error |-> r.err]

\* variant: every batch of more than one call is dispatched concurrently,
\* whatever the Runner's setting
usesParallel_ignoresSetting == Len(toolCalls) > 1

\* executeTools: r.parallelTools && len(toolCalls) > 1
usesParallel == parallelTools /\ Len(toolCalls) > 1

\* variant: no message is appended for a response that carries an error
RECURSIVE toolMessages_skipsErrors(_)
toolMessages_skipsErrors(resps) ==
    IF resps = <<>> THEN <<>>
    ELSE IF Head(resps).Error # NoError THEN toolMessages_skipsErrors(Tail(resps))
    ELSE <<Message("tool", Sprintf(Head(resps).Content), Head(resps).ToolCallID)>>
         \o toolMessages_skipsErrors(Tail(resps))

\* the tool-role messages executeLoop appends for the responses
RECURSIVE toolMessages(_)
toolMessages(resps) ==
    IF resps = <<>> THEN <<>>
    ELSE <<Message("tool", Sprintf(Head(resps).Content), Head(resps).ToolCallID)>>
         \o toolMessages(Tail(resps))

\* messagesToMemory / messagesFromMemory: role, content, metadata and
\* timestamp are copied, tool calls are dropped
messagesToMemory(msgs) ==
    [i \in 1..Len(msgs) |->
        [Role |-> msgs[i].Role, Content |-> msgs[i].Content, tool_call_id |-> msgs[i].tool_call_id]]

messagesFromMemory(msgs) ==
    [i \in 1..Len(msgs) |->
        [Role |-> msgs[i].Role, Content |-> msgs[i].Content, tool_call_id |-> msgs[i].tool_call_id]]

\* no session, or a session that holds the two messages of an earlier run,
\* oldest first
Sessions == {Nil, <<Message("user", "earlier", Nil), Message("assistant", "answer", Nil)>>}


\* the state after NewRunner(WithProvider, WithMaxTurns, WithParallelTools):
\* Run has not been called yet; it will be called with the entry agent (triage),
\* the other agents are entered by handoff
Init ==
    /\ agents = RunAgents
    /\ validateResult = NotValidated
    /\ pc = "run"
    /\ maxTurns \in 0..MaxTurnsBound
    /\ parallelTools \in BOOLEAN
    /\ root = 1
    /\ input \in Inputs(root)
    /\ ctxCancelled = FALSE
    /\ session \in Sessions
    /\ turn = 0 /\ currentAgent = root /\ messages = <<>> /\ metrics = ZeroMetrics
    /\ completion = NoCompletion /\ toolCalls = <<>> /\ responses = <<>> /\ pending = {}
    /\ groupErr = NoError /\ result = NoResult /\ err = NoError /\ providerCalls = 0
    /\ lastCall = Nil /\ nonTerminalOnly = TRUE /\ parResponses = Nil
    /\ deadlineExpired = FALSE /\ switches = 0 /\ dispatched = 0
    /\ guardrailCalls = <<>> /\ gateErr = NoError
    /\ resultChan = <<>> /\ chanClosed = FALSE /\ received = <<>>
    /\ other = NoOther /\ lookup = NoLookup /\ walk = NoWalk

\* RunContext.Context is the ctx argument of Run, stored in runCtx before Run
\* derives the span and timeout contexts from it: it is done when the caller
\* cancelled
RunContextDone == ctxCancelled

\* the context tool.Execute receives: ctx.Context, or the group context
\* derived from it, which the group cancels only when a function returned an
\* error or Wait returned
ToolContextDone == RunContextDone

\* gCtx of errgroup.WithContext(ctx.Context) while the batch runs: done when
\* ctx.Context is done, or once a function of the group has returned an error
GroupContextDone == RunContextDone \/ groupErr # NoError

\* the caller cancels the context it passed to Run; the loop reads ctx.Err() at the
\* top of an iteration only, so a cancellation takes effect there
CancelCtx ==
    /\ pc \in {"run", "loop"}
    /\ ~ctxCancelled
    /\ ctxCancelled' = TRUE
    /\ UNCHANGED <<agents, validateResult, pc, maxTurns, parallelTools, root, input, session, turn,
                   currentAgent, messages, metrics, completion, toolCalls, responses,
                   pending, groupErr, result, err, providerCalls, lastCall,
                   nonTerminalOnly, parResponses,
                   deadlineExpired, switches, dispatched, guardrailCalls, gateErr,
                   resultChan, chanClosed, received, other, lookup, walk>>

\* a Run that puts the new user message before the stored ones
RunStart_inputFirst ==
    /\ pc = "run"
    /\ messages' = IF session = Nil THEN <<Message("user", input, Nil)>>
                   ELSE <<Message("user", input, Nil)>> \o messagesFromMemory(session)
    /\ currentAgent' = root
    /\ metrics' = ZeroMetrics
    /\ turn' = 0
    /\ pc' = "loop"
    /\ UNCHANGED <<agents, validateResult, maxTurns, parallelTools, root, input,
                   ctxCancelled, session, completion, toolCalls, responses, pending, groupErr,
                   result, err, providerCalls, lastCall, nonTerminalOnly, parResponses,
                   deadlineExpired, switches, dispatched, guardrailCalls, gateErr,
                   resultChan, chanClosed, received, other, lookup, walk>>

\* Run up to the call of executeLoop, and executeLoop up to the loop:
\* the history is the session's messages followed by the user input
RunStart ==
    /\ pc = "run"
    /\ messages' = IF session = Nil THEN <<Message("user", input, Nil)>>
                   ELSE messagesFromMemory(session) \o <<Message("user", input, Nil)>>
    /\ currentAgent' = root
    /\ metrics' = ZeroMetrics
    /\ turn' = 0
    /\ pc' = "loop"
    /\ UNCHANGED <<agents, validateResult, maxTurns, parallelTools, root, input,
                   ctxCancelled, session, completion, toolCalls, responses, pending, groupErr,
                   result, err, providerCalls, lastCall, nonTerminalOnly, parResponses,
                   deadlineExpired, switches, dispatched, guardrailCalls, gateErr,
                   resultChan, chanClosed, received, other, lookup, walk>>

\* session.GetItems returns an error
LoadSessionFails ==
    /\ pc = "run"
    /\ session # Nil
    /\ result' = NoResult
    /\ err' = Error("failed to load session", "")
    /\ pc' = "done"
    /\ UNCHANGED <<agents, validateResult, maxTurns, parallelTools, root, input,
                   ctxCancelled, session, turn, currentAgent, messages, metrics, completion,
                   toolCalls, responses, pending, groupErr, providerCalls, lastCall,
                   nonTerminalOnly, parResponses,
                   deadlineExpired, switches, dispatched, guardrailCalls, gateErr,
                   resultChan, chanClosed, received, other, lookup, walk>>

\* Run returns (nil, e)
ReturnError(e) ==
    /\ result' = NoResult
    /\ err' = e
    /\ pc' = "done"

\* executeLoop returns (result, nil) to Run
\* variant: the result records the agent Run was called on
LoopReturnsResult_recordsRoot(finalOutput, msgs, m) ==
    /\ result' = [FinalOutput |-> finalOutput, Messages |-> msgs,
                  Agent |-> root, Metrics |-> m]
    /\ err' = NoError
    /\ pc' = "save"

LoopReturnsResult(finalOutput, msgs, m) ==
    /\ result' = [FinalOutput |-> finalOutput, Messages |-> msgs,
                  Agent |-> currentAgent, Metrics |-> m]
    /\ err' = NoError
    /\ pc' = "save"

\* Run after the loop: session.AddItems(result.Messages) succeeds or there is
\* no session; Run returns (result, nil)
SaveSession ==
    /\ pc = "save"
    /\ session' = IF session = Nil THEN Nil
                  ELSE session \o messagesToMemory(result.Messages)
    /\ pc' = "done"
    /\ UNCHANGED <<agents, validateResult, maxTurns, parallelTools, root, input,
                   ctxCancelled, turn, currentAgent, messages, metrics, completion,
                   toolCalls, responses, pending, groupErr, result, err, providerCalls,
                   lastCall, nonTerminalOnly, parResponses,
                   deadlineExpired, switches, dispatched, guardrailCalls, gateErr,
                   resultChan, chanClosed, received, other, lookup, walk>>

\* variant: the result is returned together with the save error
SaveSessionFails_keepsResult ==
    /\ pc = "save"
    /\ session # Nil
    /\ err' = Error("failed to save session", "")
    /\ pc' = "done"
    /\ UNCHANGED <<agents, validateResult, maxTurns, parallelTools, root, input,
                   ctxCancelled, session, turn, currentAgent, messages, metrics, completion,
                   toolCalls, responses, pending, groupErr, result, providerCalls, lastCall,
                   nonTerminalOnly, parResponses,
                   deadlineExpired, switches, dispatched, guardrailCalls, gateErr,
                   resultChan, chanClosed, received, other, lookup, walk>>

\* session.AddItems returns an error (the transaction is rolled back)
SaveSessionFails ==
    /\ pc = "save"
    /\ session # Nil
    /\ result' = NoResult
    /\ err' = Error("failed to save session", "")
    /\ pc' = "done"
    /\ UNCHANGED <<agents, validateResult, maxTurns, parallelTools, root, input,
                   ctxCancelled, session, turn, currentAgent, messages, metrics, completion,
                   toolCalls, responses, pending, groupErr, providerCalls, lastCall,
                   nonTerminalOnly, parResponses,
                   deadlineExpired, switches, dispatched, guardrailCalls, gateErr,
                   resultChan, chanClosed, received, other, lookup, walk>>

\* variant: turn <= ctx.MaxTurns
loopCondition_inclusive == turn <= maxTurns

\* for turn := 0; turn < ctx.MaxTurns; turn++
loopCondition == turn < maxTurns

\* the loop condition fails: return nil, ErrMaxTurnsExceeded
\* variant: the history is written to the session before the loop gives up
MaxTurnsExit_savesHistory ==
    /\ pc = "loop"
    /\ ~loopCondition
    /\ ReturnError(ErrMaxTurnsExceeded)
    /\ session' = IF session = Nil THEN Nil ELSE session \o messagesToMemory(messages)
    /\ UNCHANGED <<agents, validateResult, maxTurns, parallelTools, root, input,
                   ctxCancelled, turn, currentAgent, messages, metrics, completion,
                   toolCalls, responses, pending, groupErr, providerCalls, lastCall,
                   nonTerminalOnly, parResponses,
                   deadlineExpired, switches, dispatched, guardrailCalls, gateErr,
                   resultChan, chanClosed, received, other, lookup, walk>>

MaxTurnsExit ==
    /\ pc = "loop"
    /\ ~loopCondition
    /\ ReturnError(ErrMaxTurnsExceeded)
    /\ UNCHANGED <<agents, validateResult, maxTurns, parallelTools, root, input,
                   ctxCancelled, session, turn, currentAgent, messages, metrics, completion,
                   toolCalls, responses, pending, groupErr, providerCalls, lastCall,
                   nonTerminalOnly, parResponses,
                   deadlineExpired, switches, dispatched, guardrailCalls, gateErr,
                   resultChan, chanClosed, received, other, lookup, walk>>

\* ctx.Err() != nil at the start of a turn
\* variant: the guardrail gate runs before the cancellation check
CancelledExit_afterGate ==
    /\ pc = "loop"
    /\ loopCondition
    /\ ctxCancelled
    /\ ReturnError(IF validateGuardrails(currentAgent, messages) # NoError
                   THEN Wrap("guardrail validation failed",
                             validateGuardrails(currentAgent, messages).arg,
                             validateGuardrails(currentAgent, messages).cause)
                   ELSE Error("context cancelled", ""))
    /\ UNCHANGED <<agents, validateResult, maxTurns, parallelTools, root, input,
                   ctxCancelled, session, turn, currentAgent, messages, metrics, completion,
                   toolCalls, responses, pending, groupErr, providerCalls, lastCall,
                   nonTerminalOnly, parResponses,
                   deadlineExpired, switches, dispatched, guardrailCalls, gateErr,
                   resultChan, chanClosed, received, other, lookup, walk>>

CancelledExit ==
    /\ pc = "loop"
    /\ loopCondition
    /\ ctxCancelled
    /\ ReturnError(Error("context cancelled", ""))
    /\ UNCHANGED <<agents, validateResult, maxTurns, parallelTools, root, input,
                   ctxCancelled, session, turn, currentAgent, messages, metrics, completion,
                   toolCalls, responses, pending, groupErr, providerCalls, lastCall,
                   nonTerminalOnly, parResponses,
                   deadlineExpired, switches, dispatched, guardrailCalls, gateErr,
                   resultChan, chanClosed, received, other, lookup, walk>>

\* variant: the guardrails are checked after the completion call of the turn
GuardrailExit_afterCompletion ==
    /\ pc = "loop"
    /\ loopCondition
    /\ ~ctxCancelled
    /\ validateGuardrails(currentAgent, messages) # NoError
    /\ providerCalls' = providerCalls + 1
    /\ lastCall' = [agent |-> currentAgent,
                    messages |-> messagesToProviders(messages),
                    tools |-> convertToolsToProviders(agents[currentAgent].Tools),
                    ctxDone |-> RunContextDone]
    /\ ReturnError(Wrap("guardrail validation failed",
                        validateGuardrails(currentAgent, messages).arg,
                        validateGuardrails(currentAgent, messages).cause))
    /\ UNCHANGED <<agents, validateResult, maxTurns, parallelTools, root, input,
                   ctxCancelled, session, turn, currentAgent, messages, metrics, completion,
                   toolCalls, responses, pending, groupErr, nonTerminalOnly, parResponses,
                   deadlineExpired, switches, dispatched, guardrailCalls, gateErr,
                   resultChan, chanClosed, received, other, lookup, walk>>

\* validateGuardrails fails at the start of a turn
GuardrailExit ==
    /\ pc = "loop"
    /\ loopCondition
    /\ ~ctxCancelled
    /\ validateGuardrails(currentAgent, messages) # NoError
    /\ ReturnError(Wrap("guardrail validation failed",
                        validateGuardrails(currentAgent, messages).arg,
                        validateGuardrails(currentAgent, messages).cause))
    /\ UNCHANGED <<agents, validateResult, maxTurns, parallelTools, root, input,
                   ctxCancelled, session, turn, currentAgent, messages, metrics, completion,
                   toolCalls, responses, pending, groupErr, providerCalls, lastCall,
                   nonTerminalOnly, parResponses,
                   deadlineExpired, switches, dispatched, guardrailCalls, gateErr,
                   resultChan, chanClosed, received, other, lookup, walk>>

\* the turn passes the cancellation check and the guardrail gate
TurnBegins ==
    /\ pc = "loop"
    /\ loopCondition
    /\ ~ctxCancelled
    /\ validateGuardrails(currentAgent, messages) = NoError

\* provider.Complete is called with the current agent, history and tools
CallProvider ==
    /\ providerCalls' = providerCalls + 1
    /\ lastCall' = [agent |-> currentAgent,
                    messages |-> messagesToProviders(messages),
                    tools |-> convertToolsToProviders(agents[currentAgent].Tools),
                    ctxDone |-> RunContextDone]

\* errors a Provider may return from Complete
ProviderErrors == {"rate limited", "connection reset"}

\* variant: the failed turn leaves an empty assistant message in the history
CompletionFails_appendsMessage ==
    /\ TurnBegins
    /\ CallProvider
    /\ nonTerminalOnly' = FALSE
    /\ \E e \in ProviderErrors : ReturnError(Error("completion failed", e))
    /\ messages' = Append(messages, Message("assistant", "", Nil))
    /\ UNCHANGED <<agents, validateResult, maxTurns, parallelTools, root, input,
                   ctxCancelled, session, turn, currentAgent, metrics, completion,
                   toolCalls, responses, pending, groupErr, parResponses,
                   deadlineExpired, switches, dispatched, guardrailCalls, gateErr,
                   resultChan, chanClosed, received, other, lookup, walk>>

\* provider.Complete returns an error
CompletionFails ==
    /\ TurnBegins
    /\ CallProvider
    /\ nonTerminalOnly' = FALSE
    /\ \E e \in ProviderErrors : ReturnError(Error("completion failed", e))
    /\ UNCHANGED <<agents, validateResult, maxTurns, parallelTools, root, input,
                   ctxCancelled, session, turn, currentAgent, messages, metrics, completion,
                   toolCalls, responses, pending, groupErr, parResponses,
                   deadlineExpired, switches, dispatched, guardrailCalls, gateErr,
                   resultChan, chanClosed, received, other, lookup, walk>>

\* the branch conditions of executeLoop, first match wins
\* variant: structured output ends the run whether or not the agent
\* declares an output contract
takesStructured_anyAgent(agent, reply) == reply.StructuredOutput # Nil

takesStructured(agent, reply) == agents[agent].OutputType /\ reply.StructuredOutput # Nil

takesHandoff(agent, reply) == ~takesStructured(agent, reply) /\ reply.Handoff # Nil

\* variant: the tool-call branch does not yield to a handoff
takesTools_ignoresHandoff(agent, reply) ==
    /\ ~takesStructured(agent, reply)
    /\ Len(reply.ToolCalls) > 0

takesTools(agent, reply) ==
    /\ ~takesStructured(agent, reply)
    /\ reply.Handoff = Nil
    /\ Len(reply.ToolCalls) > 0

takesNone(agent, reply) ==
    /\ ~takesStructured(agent, reply)
    /\ reply.Handoff = Nil
    /\ Len(reply.ToolCalls) = 0

\* the reply lets the run go on: a resolvable handoff, tool calls, or no
\* signal from an agent that declares an output contract
isNonTerminal(agent, reply) ==
    \/ takesHandoff(agent, reply) /\ GetHandoff(agent, reply.Handoff).ok
    \/ takesTools(agent, reply)
    \/ takesNone(agent, reply) /\ agents[agent].OutputType

\* variant: the reply's message is not appended to the history
Complete_dropsReply ==
    /\ TurnBegins
    /\ CallProvider
    /\ \E reply \in Replies :
         /\ completion' = reply
         /\ metrics' = [metrics EXCEPT !.TotalTokens = @ + reply.Usage]
         /\ nonTerminalOnly' = (nonTerminalOnly /\ isNonTerminal(currentAgent, reply))
    /\ pc' = "branch"
    /\ UNCHANGED <<agents, validateResult, maxTurns, parallelTools, root, input,
                   ctxCancelled, session, turn, currentAgent, messages, toolCalls,
                   responses, pending, groupErr, result, err, parResponses,
                   deadlineExpired, switches, dispatched, guardrailCalls, gateErr,
                   resultChan, chanClosed, received, other, lookup, walk>>

\* provider.Complete returns a reply: its usage is added to the metrics and
\* its message is appended to the history
Complete ==
    /\ TurnBegins
    /\ CallProvider
    /\ \E reply \in Replies :
         /\ completion' = reply
         /\ metrics' = [metrics EXCEPT !.TotalTokens = @ + reply.Usage]
         /\ messages' = Append(messages, messageFromProviders(reply.Message))
         /\ nonTerminalOnly' = (nonTerminalOnly /\ isNonTerminal(currentAgent, reply))
    /\ pc' = "branch"
    /\ UNCHANGED <<agents, validateResult, maxTurns, parallelTools, root, input,
                   ctxCancelled, session, turn, currentAgent, toolCalls, responses, pending,
                   groupErr, result, err, parResponses,
                   deadlineExpired, switches, dispatched, guardrailCalls, gateErr,
                   resultChan, chanClosed, received, other, lookup, walk>>

\* structured output of an agent with an output contract: terminal success
BranchStructured ==
    /\ pc = "branch"
    /\ takesStructured(currentAgent, completion)
    /\ metrics' = [metrics EXCEPT !.TotalTurns = turn + 1]
    /\ LoopReturnsResult(completion.StructuredOutput, messages, metrics')
    /\ UNCHANGED <<agents, validateResult, maxTurns, parallelTools, root, input,
                   ctxCancelled, session, turn, currentAgent, messages, completion,
                   toolCalls, responses, pending, groupErr, providerCalls, lastCall,
                   nonTerminalOnly, parResponses,
                   deadlineExpired, switches, dispatched, guardrailCalls, gateErr,
                   resultChan, chanClosed, received, other, lookup, walk>>

\* variant: the handoff is counted but the current agent is not switched
BranchHandoff_noSwitch ==
    /\ pc = "branch"
    /\ takesHandoff(currentAgent, completion)
    /\ GetHandoff(currentAgent, completion.Handoff).ok
    /\ metrics' = [metrics EXCEPT !.Handoffs = @ + 1]
    /\ turn' = turn + 1
    /\ completion' = NoCompletion
    /\ pc' = "loop"
    /\ UNCHANGED <<agents, validateResult, maxTurns, parallelTools, root, input,
                   ctxCancelled, session, currentAgent, messages, toolCalls, responses,
                   pending, groupErr, result, err, providerCalls, lastCall,
                   nonTerminalOnly, parResponses,
                   deadlineExpired, switches, dispatched, guardrailCalls, gateErr,
                   resultChan, chanClosed, received, other, lookup, walk>>

\* a handoff whose target GetHandoff finds: switch the agent and continue
\* with the next turn
\* variant: the handoff target is looked up by name among all agents, not
\* among the handoffs the current agent declares
BranchHandoff_globalLookup ==
    /\ pc = "branch"
    /\ takesHandoff(currentAgent, completion)
    /\ \E b \in DOMAIN agents : agents[b].Name = completion.Handoff
    /\ metrics' = [metrics EXCEPT !.Handoffs = @ + 1]
    /\ currentAgent' = CHOOSE b \in DOMAIN agents : agents[b].Name = completion.Handoff
    /\ switches' = switches + 1
    /\ turn' = turn + 1
    /\ completion' = NoCompletion
    /\ pc' = "loop"
    /\ UNCHANGED <<agents, validateResult, maxTurns, parallelTools, root, input,
                   ctxCancelled, session, messages, toolCalls, responses, pending,
                   groupErr, result, err, providerCalls, lastCall, nonTerminalOnly,
                   parResponses, deadlineExpired, dispatched, guardrailCalls, gateErr,
                   resultChan, chanClosed, received, other, lookup, walk>>

BranchHandoff ==
    /\ pc = "branch"
    /\ takesHandoff(currentAgent, completion)
    /\ GetHandoff(currentAgent, completion.Handoff).ok
    /\ metrics' = [metrics EXCEPT !.Handoffs = @ + 1]
    /\ currentAgent' = GetHandoff(currentAgent, completion.Handoff).agent
    /\ switches' = switches + 1
    /\ turn' = turn + 1
    /\ completion' = NoCompletion
    /\ pc' = "loop"
    /\ UNCHANGED <<agents, validateResult, maxTurns, parallelTools, root, input,
                   ctxCancelled, session, messages, toolCalls, responses, pending,
                   groupErr, result, err, providerCalls, lastCall, nonTerminalOnly,
                   parResponses, deadlineExpired, dispatched, guardrailCalls, gateErr,
                   resultChan, chanClosed, received, other, lookup, walk>>

\* a handoff whose target GetHandoff does not find: fatal
BranchHandoffNotFound ==
    /\ pc = "branch"
    /\ takesHandoff(currentAgent, completion)
    /\ ~GetHandoff(currentAgent, completion.Handoff).ok
    /\ metrics' = [metrics EXCEPT !.Handoffs = @ + 1]
    /\ ReturnError(Error("handoff agent not found", completion.Handoff))
    /\ UNCHANGED <<agents, validateResult, maxTurns, parallelTools, root, input,
                   ctxCancelled, session, turn, currentAgent, messages, completion,
                   toolCalls, responses, pending, groupErr, providerCalls, lastCall,
                   nonTerminalOnly, parResponses,
                   deadlineExpired, switches, dispatched, guardrailCalls, gateErr,
                   resultChan, chanClosed, received, other, lookup, walk>>

\* tool calls: executeTools is entered and allocates the response slots
BranchTools ==
    /\ pc = "branch"
    /\ takesTools(currentAgent, completion)
    /\ metrics' = [metrics EXCEPT !.ToolCalls = @ + Len(completion.ToolCalls)]
    /\ toolCalls' = toolCallsFromProviders(completion.ToolCalls)
    /\ dispatched' = dispatched + Len(toolCalls')
    /\ responses' = [i \in 1..Len(completion.ToolCalls) |-> ZeroResponse]
    /\ pending' = 1..Len(completion.ToolCalls)
    /\ groupErr' = NoError
    /\ pc' = "tools"
    /\ UNCHANGED <<agents, validateResult, maxTurns, parallelTools, root, input,
                   ctxCancelled, session, turn, currentAgent, messages, completion,
                   result, err, providerCalls, lastCall, nonTerminalOnly, parResponses,
                   deadlineExpired, switches, guardrailCalls, gateErr,
                   resultChan, chanClosed, received, other, lookup, walk>>

\* variant: the turn index is reported instead of the number of turns
BranchFinal_reportsTurnIndex ==
    /\ pc = "branch"
    /\ takesNone(currentAgent, completion)
    /\ ~agents[currentAgent].OutputType
    /\ metrics' = [metrics EXCEPT !.TotalTurns = turn]
    /\ LoopReturnsResult(completion.Message.Content, messages, metrics')
    /\ UNCHANGED <<agents, validateResult, maxTurns, parallelTools, root, input,
                   ctxCancelled, session, turn, currentAgent, messages, completion,
                   toolCalls, responses, pending, groupErr, providerCalls, lastCall,
                   nonTerminalOnly, parResponses,
                   deadlineExpired, switches, dispatched, guardrailCalls, gateErr,
                   resultChan, chanClosed, received, other, lookup, walk>>

\* no signal and no output contract: terminal success with the reply's text
BranchFinal ==
    /\ pc = "branch"
    /\ takesNone(currentAgent, completion)
    /\ ~agents[currentAgent].OutputType
    /\ metrics' = [metrics EXCEPT !.TotalTurns = turn + 1]
    /\ LoopReturnsResult(completion.Message.Content, messages, metrics')
    /\ UNCHANGED <<agents, validateResult, maxTurns, parallelTools, root, input,
                   ctxCancelled, session, turn, currentAgent, messages, completion,
                   toolCalls, responses, pending, groupErr, providerCalls, lastCall,
                   nonTerminalOnly, parResponses,
                   deadlineExpired, switches, dispatched, guardrailCalls, gateErr,
                   resultChan, chanClosed, received, other, lookup, walk>>

\* variant: the reply's text is returned although the agent declares a contract
BranchContinue_returnsText ==
    /\ pc = "branch"
    /\ takesNone(currentAgent, completion)
    /\ agents[currentAgent].OutputType
    /\ metrics' = [metrics EXCEPT !.TotalTurns = turn + 1]
    /\ LoopReturnsResult(completion.Message.Content, messages, metrics')
    /\ UNCHANGED <<agents, validateResult, maxTurns, parallelTools, root, input,
                   ctxCancelled, session, turn, currentAgent, messages, completion,
                   toolCalls, responses, pending, groupErr, providerCalls, lastCall,
                   nonTerminalOnly, parResponses, deadlineExpired, switches, dispatched,
                   guardrailCalls, gateErr,
                   resultChan, chanClosed, received, other, lookup, walk>>

\* no signal, but the agent declares an output contract: next turn
BranchContinue ==
    /\ pc = "branch"
    /\ takesNone(currentAgent, completion)
    /\ agents[currentAgent].OutputType
    /\ turn' = turn + 1
    /\ completion' = NoCompletion
    /\ pc' = "loop"
    /\ UNCHANGED <<agents, validateResult, maxTurns, parallelTools, root, input,
                   ctxCancelled, session, currentAgent, messages, metrics, toolCalls,
                   responses, pending, groupErr, result, err, providerCalls, lastCall,
                   nonTerminalOnly, parResponses,
                   deadlineExpired, switches, dispatched, guardrailCalls, gateErr,
                   resultChan, chanClosed, received, other, lookup, walk>>

\* variant: the loop variables are not captured per iteration, every
\* function sees the last call and the last slot
GoFunc_sharedLoopVar(i) ==
    /\ pc = "tools"
    /\ usesParallel
    /\ i \in pending
    /\ responses' = [responses EXCEPT ![Len(toolCalls)] =
                        goFunc(currentAgent, toolCalls[Len(toolCalls)]).response]
    /\ groupErr' = groupErr
    /\ pending' = pending \ {i}
    /\ UNCHANGED <<agents, validateResult, pc, maxTurns, parallelTools, root, input,
                   ctxCancelled, session, turn, currentAgent, messages, metrics, completion,
                   toolCalls, result, err, providerCalls, lastCall, nonTerminalOnly,
                   parResponses,
                   deadlineExpired, switches, dispatched, guardrailCalls, gateErr,
                   resultChan, chanClosed, received, other, lookup, walk>>

\* variant: the function returns the tool's error, so that the group cancels
\* its context at the first failing call
GoFunc_cancelsOnToolError(i) ==
    /\ pc = "tools"
    /\ usesParallel
    /\ i \in pending
    /\ responses' = [responses EXCEPT ![i] = goFunc(currentAgent, toolCalls[i]).response]
    /\ groupErr' = IF groupErr = NoError
                   THEN goFunc(currentAgent, toolCalls[i]).response.Error
                   ELSE groupErr
    /\ pending' = pending \ {i}
    /\ UNCHANGED <<agents, validateResult, pc, maxTurns, parallelTools, root, input,
                   ctxCancelled, session, turn, currentAgent, messages, metrics, completion,
                   toolCalls, result, err, providerCalls, lastCall, nonTerminalOnly,
                   parResponses,
                   deadlineExpired, switches, dispatched, guardrailCalls, gateErr,
                   resultChan, chanClosed, received, other, lookup, walk>>

\* concurrent dispatch: the function of call i runs, in any order
GoFunc(i) ==
    /\ pc = "tools"
    /\ usesParallel
    /\ i \in pending
    /\ responses' = [responses EXCEPT ![i] = goFunc(currentAgent, toolCalls[i]).response]
    /\ groupErr' = IF groupErr = NoError THEN goFunc(currentAgent, toolCalls[i]).ret
                   ELSE groupErr
    /\ pending' = pending \ {i}
    /\ UNCHANGED <<agents, validateResult, pc, maxTurns, parallelTools, root, input,
                   ctxCancelled, session, turn, currentAgent, messages, metrics, completion,
                   toolCalls, result, err, providerCalls, lastCall, nonTerminalOnly,
                   parResponses,
                   deadlineExpired, switches, dispatched, guardrailCalls, gateErr,
                   resultChan, chanClosed, received, other, lookup, walk>>

\* variant: the sequential loop stops at the first unknown tool
SeqIter_stopsAtUnknown ==
    /\ pc = "tools"
    /\ ~usesParallel
    /\ pending # {}
    /\ LET i == CHOOSE x \in pending : \A y \in pending : x <= y
       IN  /\ responses' = [responses EXCEPT ![i] = seqBody(currentAgent, toolCalls[i])]
           /\ pending' = IF findTool(currentAgent, toolCalls[i].Name) = Nil THEN {}
                         ELSE pending \ {i}
    /\ UNCHANGED <<agents, validateResult, pc, maxTurns, parallelTools, root, input,
                   ctxCancelled, session, turn, currentAgent, messages, metrics, completion,
                   toolCalls, groupErr, result, err, providerCalls, lastCall,
                   nonTerminalOnly, parResponses,
                   deadlineExpired, switches, dispatched, guardrailCalls, gateErr,
                   resultChan, chanClosed, received, other, lookup, walk>>

\* sequential dispatch: the next iteration of the loop over toolCalls
SeqIter ==
    /\ pc = "tools"
    /\ ~usesParallel
    /\ pending # {}
    /\ LET i == CHOOSE x \in pending : \A y \in pending : x <= y
       IN  /\ responses' = [responses EXCEPT ![i] = seqBody(currentAgent, toolCalls[i])]
           /\ pending' = pending \ {i}
    /\ UNCHANGED <<agents, validateResult, pc, maxTurns, parallelTools, root, input,
                   ctxCancelled, session, turn, currentAgent, messages, metrics, completion,
                   toolCalls, groupErr, result, err, providerCalls, lastCall,
                   nonTerminalOnly, parResponses,
                   deadlineExpired, switches, dispatched, guardrailCalls, gateErr,
                   resultChan, chanClosed, received, other, lookup, walk>>

\* variant: executeTools returns without waiting for the functions of the group
ToolsReturn_withoutWait ==
    /\ pc = "tools"
    /\ IF groupErr # NoError
       THEN /\ ReturnError(Error("tool execution failed", groupErr.err))
            /\ UNCHANGED <<messages, turn, completion>>
       ELSE /\ messages' = messages \o toolMessages(responses)
            /\ turn' = turn + 1
            /\ completion' = NoCompletion
            /\ pc' = "loop"
            /\ UNCHANGED <<result, err>>
    /\ toolCalls' = <<>>
    /\ responses' = <<>>
    /\ UNCHANGED <<agents, validateResult, maxTurns, parallelTools, root, input,
                   ctxCancelled, session, currentAgent, metrics, pending, groupErr,
                   providerCalls, lastCall, nonTerminalOnly, parResponses,
                   deadlineExpired, switches, dispatched, guardrailCalls, gateErr,
                   resultChan, chanClosed, received, other, lookup, walk>>

\* g.Wait() or the sequential loop is over: executeTools returns and
\* executeLoop appends one tool message per response, then starts the next
\* turn
ToolsReturn ==
    /\ pc = "tools"
    /\ pending = {}
    /\ IF groupErr # NoError
       THEN /\ ReturnError(Error("tool execution failed", groupErr.err))
            /\ UNCHANGED <<messages, turn, completion>>
       ELSE /\ messages' = messages \o toolMessages(responses)
            /\ turn' = turn + 1
            /\ completion' = NoCompletion
            /\ pc' = "loop"
            /\ UNCHANGED <<result, err>>
    /\ toolCalls' = <<>>
    /\ responses' = <<>>
    /\ UNCHANGED <<agents, validateResult, maxTurns, parallelTools, root, input,
                   ctxCancelled, session, currentAgent, metrics, pending, groupErr,
                   providerCalls, lastCall, nonTerminalOnly, parResponses,
                   deadlineExpired, switches, dispatched, guardrailCalls, gateErr,
                   resultChan, chanClosed, received, other, lookup, walk>>

Next ==
    \/ CancelCtx
    \/ RunStart
    \/ LoadSessionFails
    \/ SaveSession
    \/ SaveSessionFails
    \/ MaxTurnsExit
    \/ CancelledExit
    \/ GuardrailExit
    \/ CompletionFails
    \/ Complete
    \/ BranchStructured
    \/ BranchHandoff
    \/ BranchHandoffNotFound
    \/ BranchTools
    \/ BranchFinal
    \/ BranchContinue
    \/ \E i \in 1..MaxBatch : GoFunc(i)
    \/ SeqIter
    \/ ToolsReturn

Spec == Init /\ [][Next]_vars

\* every call the run makes returns, and the run is scheduled
FairSpec == Spec /\ WF_vars(Next)

\* --------------------------------------- both dispatch policies on one batch
\* executeTools is called on the same agent and batch twice, first with
\* parallelTools set and then without; the responses of the first call are
\* kept in parResponses.
InitTools ==
    /\ agents = RunAgents
    /\ validateResult = NotValidated
    /\ pc = "tools"
    /\ maxTurns = 1 /\ root = 1 /\ input = "hi" /\ ctxCancelled = FALSE /\ session = Nil
    /\ parallelTools = TRUE
    /\ currentAgent \in DOMAIN RunAgents
    /\ \E b \in Batches :
         /\ toolCalls = toolCallsFromProviders(b)
         /\ responses = [i \in 1..Len(b) |-> ZeroResponse]
         /\ pending = 1..Len(b)
    /\ turn = 0 /\ messages = <<>> /\ metrics = ZeroMetrics /\ completion = NoCompletion
    /\ groupErr = NoError /\ result = NoResult /\ err = NoError /\ providerCalls = 0
    /\ lastCall = Nil /\ nonTerminalOnly = TRUE /\ parResponses = Nil
    /\ deadlineExpired = FALSE /\ switches = 0 /\ dispatched = 0
    /\ guardrailCalls = <<>> /\ gateErr = NoError
    /\ resultChan = <<>> /\ chanClosed = FALSE /\ received = <<>>
    /\ other = NoOther /\ lookup = NoLookup /\ walk = NoWalk

\* the first call returned: call executeTools again with parallelTools off
SecondPass ==
    /\ pc = "tools"
    /\ pending = {}
    /\ parallelTools
    /\ parResponses' = responses
    /\ parallelTools' = FALSE
    /\ responses' = [i \in 1..Len(toolCalls) |-> ZeroResponse]
    /\ pending' = 1..Len(toolCalls)
    /\ UNCHANGED <<agents, validateResult, pc, maxTurns, root, input, ctxCancelled, session,
                   turn, currentAgent, messages, metrics, completion, toolCalls, groupErr,
                   result, err, providerCalls, lastCall, nonTerminalOnly,
                   deadlineExpired, switches, dispatched, guardrailCalls, gateErr,
                   resultChan, chanClosed, received, other, lookup, walk>>

\* the second call returned
BothReturned ==
    /\ pc = "tools"
    /\ pending = {}
    /\ ~parallelTools
    /\ pc' = "compared"
    /\ UNCHANGED <<agents, validateResult, maxTurns, parallelTools, root, input,
                   ctxCancelled, session, turn, currentAgent, messages, metrics, completion,
                   toolCalls, responses, pending, groupErr, result, err, providerCalls,
                   lastCall, nonTerminalOnly, parResponses,
                   deadlineExpired, switches, dispatched, guardrailCalls, gateErr,
                   resultChan, chanClosed, received, other, lookup, walk>>

NextTools ==
    \/ \E i \in 1..MaxBatch : GoFunc(i)
    \/ SeqIter
    \/ SecondPass
    \/ BothReturned

SpecTools == InitTools /\ [][NextTools]_vars

\* ----------------------------------------------- the guardrail gate, stepwise
\* validateGuardrails is called for agent 1 on a generated guardrail list and
\* history; the loop over agent.Guardrails is taken one iteration at a time
\* and every Guardrail.Validate call is recorded in guardrailCalls.
GuardrailKinds == {"noSecrets", "shortOnly", "allowAll"}

GateContents == {"ok", "secret", "long", "long secret"}

GuardrailLists == UNION {[1..k -> GuardrailKinds] : k \in 0..MaxGuardrails}

Histories ==
    UNION {{[i \in 1..k |-> Message("user", cs[i], Nil)] : cs \in [1..k -> GateContents]} :
             k \in 0..MaxHistory}

InitGuardrails ==
    /\ \E gs \in GuardrailLists : agents = [RunAgents EXCEPT ![1].Guardrails = gs]
    /\ messages \in Histories
    /\ validateResult = NotValidated
    /\ pc = "gate"
    /\ maxTurns = 1 /\ parallelTools = FALSE /\ root = 1 /\ input = ""
    /\ ctxCancelled = FALSE /\ session = Nil /\ turn = 0 /\ currentAgent = 1
    /\ metrics = ZeroMetrics
    /\ completion = NoCompletion /\ toolCalls = <<>> /\ responses = <<>> /\ pending = {}
    /\ groupErr = NoError /\ result = NoResult /\ err = NoError /\ providerCalls = 0
    /\ lastCall = Nil /\ nonTerminalOnly = TRUE /\ parResponses = Nil
    /\ deadlineExpired = FALSE /\ switches = 0 /\ dispatched = 0
    /\ guardrailCalls = <<>> /\ gateErr = NoError
    /\ resultChan = <<>> /\ chanClosed = FALSE /\ received = <<>>
    /\ other = NoOther /\ lookup = NoLookup /\ walk = NoWalk

\* if len(messages) == 0 || len(agent.Guardrails) == 0 { return nil }
GateSkips ==
    /\ pc = "gate"
    /\ Len(messages) = 0 \/ Len(agents[currentAgent].Guardrails) = 0
    /\ gateErr' = NoError
    /\ pc' = "gated"
    /\ UNCHANGED <<agents, validateResult, maxTurns, parallelTools, root, input,
                   ctxCancelled, session, turn, currentAgent, messages, metrics, completion,
                   toolCalls, responses, pending, groupErr, result, err, providerCalls,
                   lastCall, nonTerminalOnly, parResponses, deadlineExpired, switches,
                   dispatched, guardrailCalls,
                   resultChan, chanClosed, received, other, lookup, walk>>

\* variant: a failure is recorded but the remaining guardrails still run
GateIter_failSoft ==
    /\ pc = "gate"
    /\ Len(messages) # 0 /\ Len(agents[currentAgent].Guardrails) # 0
    /\ Len(guardrailCalls) < Len(agents[currentAgent].Guardrails)
    /\ LET guardrail == agents[currentAgent].Guardrails[Len(guardrailCalls) + 1]
           lastMessage == messages[Len(messages)]
           e == GuardrailValidate(guardrail, lastMessage.Content)
       IN  /\ guardrailCalls' = Append(guardrailCalls,
                                       [guardrail |-> guardrail, content |-> lastMessage.Content])
           /\ gateErr' = IF e # NoError /\ gateErr = NoError
                         THEN Wrap("guardrail failed", guardrail, e.err)
                         ELSE gateErr
           /\ pc' = IF Len(guardrailCalls') = Len(agents[currentAgent].Guardrails)
                       /\ gateErr' # NoError
                    THEN "gated" ELSE "gate"
    /\ UNCHANGED <<agents, validateResult, maxTurns, parallelTools, root, input,
                   ctxCancelled, session, turn, currentAgent, messages, metrics, completion,
                   toolCalls, responses, pending, groupErr, result, err, providerCalls,
                   lastCall, nonTerminalOnly, parResponses, deadlineExpired, switches,
                   dispatched,
                   resultChan, chanClosed, received, other, lookup, walk>>

\* one iteration of: for _, guardrail := range agent.Guardrails
GateIter ==
    /\ pc = "gate"
    /\ Len(messages) # 0 /\ Len(agents[currentAgent].Guardrails) # 0
    /\ Len(guardrailCalls) < Len(agents[currentAgent].Guardrails)
    /\ LET guardrail == agents[currentAgent].Guardrails[Len(guardrailCalls) + 1]
           lastMessage == messages[Len(messages)]
           e == GuardrailValidate(guardrail, lastMessage.Content)
       IN  /\ guardrailCalls' = Append(guardrailCalls,
                                       [guardrail |-> guardrail, content |-> lastMessage.Content])
           /\ IF e # NoError
              THEN /\ gateErr' = Wrap("guardrail failed", guardrail, e.err)
                   /\ pc' = "gated"
              ELSE UNCHANGED <<gateErr, pc>>
    /\ UNCHANGED <<agents, validateResult, maxTurns, parallelTools, root, input,
                   ctxCancelled, session, turn, currentAgent, messages, metrics, completion,
                   toolCalls, responses, pending, groupErr, result, err, providerCalls,
                   lastCall, nonTerminalOnly, parResponses, deadlineExpired, switches,
                   dispatched,
                   resultChan, chanClosed, received, other, lookup, walk>>

\* the loop is over: return nil
GatePasses ==
    /\ pc = "gate"
    /\ Len(messages) # 0 /\ Len(agents[currentAgent].Guardrails) # 0
    /\ Len(guardrailCalls) = Len(agents[currentAgent].Guardrails)
    /\ gateErr' = NoError
    /\ pc' = "gated"
    /\ UNCHANGED <<agents, validateResult, maxTurns, parallelTools, root, input,
                   ctxCancelled, session, turn, currentAgent, messages, metrics, completion,
                   toolCalls, responses, pending, groupErr, result, err, providerCalls,
                   lastCall, nonTerminalOnly, parResponses, deadlineExpired, switches,
                   dispatched, guardrailCalls,
                   resultChan, chanClosed, received, other, lookup, walk>>

NextGuardrails ==
    \/ GateSkips
    \/ GateIter
    \/ GatePasses

SpecGuardrails == InitGuardrails /\ [][NextGuardrails]_vars

\* ------------------------------------------------- the deadline of a Run
\* Run derives a context with the Runner's timeout (context.WithTimeout) and
\* passes it to the session calls; the timer may fire at any time after.
\* Expiry before a turn and during a tool batch are the two cases kept.
DeadlineExpires ==
    /\ pc \in {"loop", "tools"}
    /\ ~deadlineExpired
    /\ deadlineExpired' = TRUE
    /\ UNCHANGED <<agents, validateResult, pc, maxTurns, parallelTools, root, input,
                   ctxCancelled, session, turn, currentAgent, messages, metrics, completion,
                   toolCalls, responses, pending, groupErr, result, err, providerCalls,
                   lastCall, nonTerminalOnly, parResponses, switches, dispatched,
                   guardrailCalls, gateErr,
                   resultChan, chanClosed, received, other, lookup, walk>>

\* a Runner without session
InitDeadline ==
    /\ Init
    /\ session = Nil

NextDeadline ==
    \/ DeadlineExpires
    \/ CancelCtx
    \/ RunStart
    \/ SaveSession
    \/ MaxTurnsExit
    \/ CancelledExit
    \/ GuardrailExit
    \/ CompletionFails
    \/ Complete
    \/ BranchStructured
    \/ BranchHandoff
    \/ BranchHandoffNotFound
    \/ BranchTools
    \/ BranchFinal
    \/ BranchContinue
    \/ \E i \in 1..MaxBatch : GoFunc(i)
    \/ SeqIter
    \/ ToolsReturn

SpecDeadline == InitDeadline /\ [][NextDeadline]_vars

\* ------------------------------------------------------------- RunAsync
\* RunAsync makes a channel of capacity 1 and starts a goroutine that calls
\* Run, sends one value and closes the channel on exit; the consumer takes
\* one value from the channel. A channel value is a *RunResult: isNil tells
\* a nil pointer from a result.
ChanCapacity == 1

\* fmt.Sprintf("Error: %v", err)
ErrorText(e) == [prefix |-> "Error: ", err |-> e]

\* &RunResult{FinalOutput: fmt.Sprintf("Error: %v", err)}
DegradedResult(e) ==
    [FinalOutput |-> ErrorText(e), Messages |-> <<>>, Agent |-> 0, Metrics |-> ZeroMetrics]

\* the value the goroutine sends after Run returned (result, err)
AsyncValue ==
    IF err # NoError
    THEN [isNil |-> FALSE, result |-> DegradedResult(err)]
    ELSE [isNil |-> (result = NoResult), result |-> result]

\* variant: on failure nothing is sent, the channel is only closed
AsyncSend_dropsOnError ==
    /\ pc = "done"
    /\ Len(resultChan) < ChanCapacity
    /\ resultChan' = IF err # NoError THEN resultChan ELSE Append(resultChan, AsyncValue)
    /\ pc' = "sent"
    /\ UNCHANGED <<agents, validateResult, maxTurns, parallelTools, root, input,
                   ctxCancelled, session, turn, currentAgent, messages, metrics, completion,
                   toolCalls, responses, pending, groupErr, result, err, providerCalls,
                   lastCall, nonTerminalOnly, parResponses, deadlineExpired, switches,
                   dispatched, guardrailCalls, gateErr, chanClosed, received, other, lookup, walk>>

\* resultChan <- result: possible when the buffer has room
AsyncSend ==
    /\ pc = "done"
    /\ Len(resultChan) < ChanCapacity
    /\ resultChan' = Append(resultChan, AsyncValue)
    /\ pc' = "sent"
    /\ UNCHANGED <<agents, validateResult, maxTurns, parallelTools, root, input,
                   ctxCancelled, session, turn, currentAgent, messages, metrics, completion,
                   toolCalls, responses, pending, groupErr, result, err, providerCalls,
                   lastCall, nonTerminalOnly, parResponses, deadlineExpired, switches,
                   dispatched, guardrailCalls, gateErr, chanClosed, received, other, lookup, walk>>

\* defer close(resultChan), when the goroutine returns
AsyncClose ==
    /\ pc = "sent"
    /\ chanClosed' = TRUE
    /\ pc' = "closed"
    /\ UNCHANGED <<agents, validateResult, maxTurns, parallelTools, root, input,
                   ctxCancelled, session, turn, currentAgent, messages, metrics, completion,
                   toolCalls, responses, pending, groupErr, result, err, providerCalls,
                   lastCall, nonTerminalOnly, parResponses, deadlineExpired, switches,
                   dispatched, guardrailCalls, gateErr, resultChan, received, other, lookup, walk>>

\* the consumer's receive: the oldest buffered value, or the zero value (a
\* nil *RunResult) once the channel is closed and empty; it blocks otherwise
Receive ==
    /\ received = <<>>
    /\ IF Len(resultChan) > 0
       THEN /\ received' = <<Head(resultChan)>>
            /\ resultChan' = Tail(resultChan)
       ELSE /\ chanClosed
            /\ received' = <<[isNil |-> TRUE, result |-> NoResult]>>
            /\ UNCHANGED resultChan
    /\ UNCHANGED <<agents, validateResult, maxTurns, parallelTools, root, input,
                   ctxCancelled, session, turn, currentAgent, messages, metrics, completion,
                   toolCalls, responses, pending, groupErr, result, err, providerCalls,
                   lastCall, nonTerminalOnly, parResponses, deadlineExpired, switches,
                   dispatched, guardrailCalls, gateErr, pc, chanClosed, other, lookup, walk>>

\* a Runner built from opts: no session, tools dispatched sequentially
InitAsync ==
    /\ Init
    /\ session = Nil
    /\ ~parallelTools

NextAsync ==
    \/ RunStart
    \/ SaveSession
    \/ MaxTurnsExit
    \/ GuardrailExit
    \/ CompletionFails
    \/ Complete
    \/ BranchStructured
    \/ BranchHandoff
    \/ BranchHandoffNotFound
    \/ BranchTools
    \/ BranchFinal
    \/ BranchContinue
    \/ SeqIter
    \/ ToolsReturn
    \/ AsyncSend
    \/ AsyncClose
    \/ Receive

SpecAsync == InitAsync /\ [][NextAsync]_vars

\* the goroutine and the consumer are scheduled
FairSpecAsync == SpecAsync /\ WF_vars(NextAsync)

\* ================================================================== claims

\* ------------------------------------------- two Runs on the same agents

\* a deterministic Completion Provider: its reply is a function of the agent
\* and the history. triage looks two things up and then answers, billing
\* hands off to report, report returns its structured output
ScriptedComplete(agent, msgs) ==
    IF agents[agent].Name = "triage"
    THEN IF \E i \in 1..Len(msgs) : msgs[i].Role = "tool"
         THEN Reply("ok", <<>>, Nil, Nil)
         ELSE Reply("", <<ToolCall(CallIds[1], "lookup"), ToolCall(CallIds[2], "charge")>>,
                    Nil, Nil)
    ELSE IF agents[agent].Name = "billing"
    THEN Reply("ok", <<>>, "report", Nil)
    ELSE Reply("", <<>>, Nil, "json")

\* provider.Complete of that provider returns
CompleteScripted ==
    /\ Complete
    /\ completion' = ScriptedComplete(currentAgent, messages)

\* what a call of Run owns: its arguments, the locals of Run, executeLoop
\* and executeTools, and what it returns
RunState ==
    [pc |-> pc,
     root |-> root,
     input |-> input,
     turn |-> turn,
     currentAgent |-> currentAgent,
     messages |-> messages,
     metrics |-> metrics,
     completion |-> completion,
     toolCalls |-> toolCalls,
     responses |-> responses,
     pending |-> pending,
     groupErr |-> groupErr,
     result |-> result,
     err |-> err,
     providerCalls |-> providerCalls,
     lastCall |-> lastCall,
     nonTerminalOnly |-> nonTerminalOnly,
     switches |-> switches,
     dispatched |-> dispatched]

\* a call of Run that has not started
NewRun(agent, text) ==
    [pc |-> "run", root |-> agent, input |-> text, turn |-> 0, currentAgent |-> agent,
     messages |-> <<>>, metrics |-> ZeroMetrics, completion |-> NoCompletion,
     toolCalls |-> <<>>, responses |-> <<>>, pending |-> {}, groupErr |-> NoError,
     result |-> NoResult, err |-> NoError, providerCalls |-> 0, lastCall |-> Nil,
     nonTerminalOnly |-> TRUE, switches |-> 0, dispatched |-> 0]

\* variant: the metrics are kept in the Runner, one record for all its Runs
Switch_sharedMetrics ==
    /\ other # NoOther
    /\ other.pc # "done"
    /\ other' = RunState
    /\ pc' = other.pc
    /\ root' = other.root
    /\ input' = other.input
    /\ turn' = other.turn
    /\ currentAgent' = other.currentAgent
    /\ messages' = other.messages
    /\ completion' = other.completion
    /\ toolCalls' = other.toolCalls
    /\ responses' = other.responses
    /\ pending' = other.pending
    /\ groupErr' = other.groupErr
    /\ result' = other.result
    /\ err' = other.err
    /\ providerCalls' = other.providerCalls
    /\ lastCall' = other.lastCall
    /\ nonTerminalOnly' = other.nonTerminalOnly
    /\ switches' = other.switches
    /\ dispatched' = other.dispatched
    /\ UNCHANGED <<metrics, agents, validateResult, maxTurns, parallelTools,
                   ctxCancelled, session, parResponses, deadlineExpired, guardrailCalls,
                   gateErr, resultChan, chanClosed, received, lookup, walk>>

\* the scheduler takes the Run in progress off the processor and resumes the
\* other one, which owns its own arguments and locals; the agents and the
\* Runner are the same for both
Switch ==
    /\ other # NoOther
    /\ other.pc # "done"
    /\ other' = RunState
    /\ pc' = other.pc
    /\ root' = other.root
    /\ input' = other.input
    /\ turn' = other.turn
    /\ currentAgent' = other.currentAgent
    /\ messages' = other.messages
    /\ metrics' = other.metrics
    /\ completion' = other.completion
    /\ toolCalls' = other.toolCalls
    /\ responses' = other.responses
    /\ pending' = other.pending
    /\ groupErr' = other.groupErr
    /\ result' = other.result
    /\ err' = other.err
    /\ providerCalls' = other.providerCalls
    /\ lastCall' = other.lastCall
    /\ nonTerminalOnly' = other.nonTerminalOnly
    /\ switches' = other.switches
    /\ dispatched' = other.dispatched
    /\ UNCHANGED <<agents, validateResult, maxTurns, parallelTools,
                   ctxCancelled, session, parResponses, deadlineExpired, guardrailCalls,
                   gateErr, resultChan, chanClosed, received, lookup, walk>>

\* one Runner without session, and two calls of Run on agents of the same graph
InitConcurrent ==
    /\ agents = RunAgents
    /\ validateResult = NotValidated
    /\ maxTurns \in 0..MaxTurnsBound
    /\ parallelTools \in BOOLEAN
    /\ ctxCancelled = FALSE
    /\ session = Nil
    /\ \E a \in {1, 2} : \E text \in Inputs(a) :
          /\ pc = "run" /\ root = a /\ input = text /\ currentAgent = a
    /\ \E a \in {1, 2} : \E text \in Inputs(a) : other = NewRun(a, text)
    /\ lookup = NoLookup /\ walk = NoWalk
    /\ turn = 0 /\ messages = <<>> /\ metrics = ZeroMetrics
    /\ completion = NoCompletion /\ toolCalls = <<>> /\ responses = <<>> /\ pending = {}
    /\ groupErr = NoError /\ result = NoResult /\ err = NoError /\ providerCalls = 0
    /\ lastCall = Nil /\ nonTerminalOnly = TRUE /\ parResponses = Nil
    /\ deadlineExpired = FALSE /\ switches = 0 /\ dispatched = 0
    /\ guardrailCalls = <<>> /\ gateErr = NoError
    /\ resultChan = <<>> /\ chanClosed = FALSE /\ received = <<>>

NextConcurrent ==
    \/ RunStart
    \/ SaveSession
    \/ MaxTurnsExit
    \/ GuardrailExit
    \/ CompleteScripted
    \/ BranchStructured
    \/ BranchHandoff
    \/ BranchTools
    \/ BranchFinal
    \/ \E i \in 1..MaxBatch : GoFunc(i)
    \/ SeqIter
    \/ ToolsReturn
    \/ Switch

SpecConcurrent == InitConcurrent /\ [][NextConcurrent]_vars


\* --------------------------------------- building a handoff graph, then Run

\* the number of handoff edges declared so far
RECURSIVE EdgeCount(_)
EdgeCount(n) == IF n = 0 THEN 0 ELSE Len(agents[n].Handoffs) + EdgeCount(n - 1)

\* the Name field of every agent
NamesOf == [a \in DOMAIN agents |-> agents[a].Name]

\* variant: the option appends the handoff and leaves the handoff map as it was
WithHandoffs_keepsMap(a, b) ==
    /\ pc = "build"
    /\ EdgeCount(Len(RunNames)) < MaxEdges
    /\ b \notin SeqToSet(agents[a].Handoffs)
    /\ agents' = [agents EXCEPT ![a].Handoffs = Append(@, b)]
    /\ pc' = pc
    /\ UNCHANGED <<validateResult, maxTurns, parallelTools, root, input,
                   ctxCancelled, session, turn, currentAgent, messages, metrics, completion,
                   toolCalls, responses, pending, groupErr, result, err, providerCalls,
                   lastCall, nonTerminalOnly, parResponses, deadlineExpired, switches,
                   dispatched, guardrailCalls, gateErr, resultChan, chanClosed, received,
                   other, lookup, walk>>

\* the option WithHandoffs(b) applied to agent a, by NewAgent or by the
\* program on an agent it already holds: b is appended to a.Handoffs and the
\* handoff map is rebuilt. The option returns nothing
WithHandoffs(a, b) ==
    /\ pc = "build"
    /\ EdgeCount(Len(RunNames)) < MaxEdges
    /\ b \notin SeqToSet(agents[a].Handoffs)
    /\ agents' = [agents EXCEPT
                    ![a].Handoffs = Append(@, b),
                    ![a].handoffMap = buildHandoffMap(NamesOf, Append(agents[a].Handoffs, b),
                                                      EmptyHandoffMap)]
    /\ pc' = pc
    /\ UNCHANGED <<validateResult, maxTurns, parallelTools, root, input,
                   ctxCancelled, session, turn, currentAgent, messages, metrics, completion,
                   toolCalls, responses, pending, groupErr, result, err, providerCalls,
                   lastCall, nonTerminalOnly, parResponses, deadlineExpired, switches,
                   dispatched, guardrailCalls, gateErr, resultChan, chanClosed, received,
                   other, lookup, walk>>

\* the program calls Run on the root agent; Run takes any *Agent
CallRun ==
    /\ pc = "build"
    /\ pc' = "run"
    /\ UNCHANGED agents
    /\ UNCHANGED <<validateResult, maxTurns, parallelTools, root, input,
                   ctxCancelled, session, turn, currentAgent, messages, metrics, completion,
                   toolCalls, responses, pending, groupErr, result, err, providerCalls,
                   lastCall, nonTerminalOnly, parResponses, deadlineExpired, switches,
                   dispatched, guardrailCalls, gateErr, resultChan, chanClosed, received,
                   other, lookup, walk>>

\* a deterministic Completion Provider that asks for a handoff to the first
\* handoff the current agent declares, and answers "ok" when it declares none
FollowsHandoffs(agent) ==
    IF agents[agent].Handoffs = <<>> THEN Reply("ok", <<>>, Nil, Nil)
    ELSE Reply("ok", <<>>, agents[Head(agents[agent].Handoffs)].Name, Nil)

\* provider.Complete of that provider returns
CompleteFollowing ==
    /\ Complete
    /\ completion' = FollowsHandoffs(currentAgent)

\* three agents built by NewAgent(name) without options, and a Runner without session
InitBuild ==
    /\ agents = [a \in DOMAIN RunNames |->
                   NewAgent(RunNames, a, "gpt-4", <<>>, <<>>, <<>>, FALSE)]
    /\ pc = "build"
    /\ validateResult = NotValidated
    /\ maxTurns \in 1..MaxTurnsBound
    /\ parallelTools = FALSE
    /\ root = 1
    /\ input = "hi"
    /\ ctxCancelled = FALSE
    /\ session = Nil
    /\ turn = 0 /\ currentAgent = root /\ messages = <<>> /\ metrics = ZeroMetrics
    /\ completion = NoCompletion /\ toolCalls = <<>> /\ responses = <<>> /\ pending = {}
    /\ groupErr = NoError /\ result = NoResult /\ err = NoError /\ providerCalls = 0
    /\ lastCall = Nil /\ nonTerminalOnly = TRUE /\ parResponses = Nil
    /\ deadlineExpired = FALSE /\ switches = 0 /\ dispatched = 0
    /\ guardrailCalls = <<>> /\ gateErr = NoError
    /\ resultChan = <<>> /\ chanClosed = FALSE /\ received = <<>>
    /\ other = NoOther /\ lookup = NoLookup /\ walk = NoWalk

NextBuild ==
    \/ \E a, b \in DOMAIN RunNames : WithHandoffs(a, b)
    \/ CallRun
    \/ RunStart
    \/ SaveSession
    \/ MaxTurnsExit
    \/ CompleteFollowing
    \/ BranchHandoff
    \/ BranchFinal

SpecBuild == InitBuild /\ [][NextBuild]_vars


\* --------------------------------- a run that roams a graph the program built
\* provider.Complete of a provider that asks for a handoff to any name, or
\* answers "ok"
CompleteRoaming ==
    /\ Complete
    /\ completion' \in {Reply("ok", <<>>, h, Nil) : h \in HandoffTargets \cup {Nil}}

NextRoam ==
    \/ \E a, b \in DOMAIN RunNames : WithHandoffs(a, b)
    \/ CallRun
    \/ RunStart
    \/ SaveSession
    \/ MaxTurnsExit
    \/ CompleteRoaming
    \/ BranchHandoff
    \/ BranchHandoffNotFound
    \/ BranchFinal

SpecRoam == InitBuild /\ [][NextRoam]_vars


\* ----------------------------------- a run on agents that all carry guardrails
\* triage refuses reported failures, billing refuses secrets, report (the
\* contract agent) refuses both; the run starts at triage or at report
GatedAgents ==
    [RunAgents EXCEPT ![1].Guardrails = <<"noFailures">>,
                      ![2].Guardrails = <<"noSecrets">>,
                      ![3].Guardrails = <<"noSecrets", "noFailures">>]

InitGated ==
    /\ agents = GatedAgents
    /\ validateResult = NotValidated
    /\ pc = "run"
    /\ maxTurns \in 1..MaxTurnsBound
    /\ parallelTools = FALSE
    /\ root \in {1, 3}
    /\ input \in {"hi", "secret"}
    /\ ctxCancelled = FALSE
    /\ session = Nil
    /\ turn = 0 /\ currentAgent = root /\ messages = <<>> /\ metrics = ZeroMetrics
    /\ completion = NoCompletion /\ toolCalls = <<>> /\ responses = <<>> /\ pending = {}
    /\ groupErr = NoError /\ result = NoResult /\ err = NoError /\ providerCalls = 0
    /\ lastCall = Nil /\ nonTerminalOnly = TRUE /\ parResponses = Nil
    /\ deadlineExpired = FALSE /\ switches = 0 /\ dispatched = 0
    /\ guardrailCalls = <<>> /\ gateErr = NoError
    /\ resultChan = <<>> /\ chanClosed = FALSE /\ received = <<>>
    /\ other = NoOther /\ lookup = NoLookup /\ walk = NoWalk

NextGated ==
    \/ RunStart
    \/ SaveSession
    \/ MaxTurnsExit
    \/ GuardrailExit
    \/ CompletionFails
    \/ Complete
    \/ BranchStructured
    \/ BranchHandoff
    \/ BranchHandoffNotFound
    \/ BranchTools
    \/ BranchFinal
    \/ BranchContinue
    \/ SeqIter
    \/ ToolsReturn

SpecGated == InitGated /\ [][NextGated]_vars


\* ------------------------------------------- a tool that panics in a batch
\* "faulty" is a tool whose Execute panics (the function it wraps panics;
\* FunctionTool.Execute calls it through reflection and does not recover)
FaultNames == {"lookup", "charge", "faulty", "ghost"}

FaultBatches ==
    UNION {{[i \in 1..n |-> ToolCall(CallIds[i], names[i])] : names \in [1..n -> FaultNames]} :
             n \in 2..MaxBatch}

\* tool.Execute of this call panics
Panics(agent, call) == findTool(agent, call.Name) = "faulty"

\* the function handed to g.Go for call i runs to its return
GoFuncReturns(i) ==
    /\ i \in pending
    /\ ~Panics(currentAgent, toolCalls[i])
    /\ GoFunc(i)

\* the function handed to g.Go for call i panics inside tool.Execute: neither
\* the function, the group, executeTools, executeLoop nor Run recovers, so
\* the panic ends the program and Run returns nothing to its caller
GoFuncPanics(i) ==
    /\ pc = "tools"
    /\ usesParallel
    /\ i \in pending
    /\ Panics(currentAgent, toolCalls[i])
    /\ pc' = "crashed"
    /\ UNCHANGED <<agents, validateResult, maxTurns, parallelTools, root, input,
                   ctxCancelled, session, turn, currentAgent, messages, metrics, completion,
                   toolCalls, responses, pending, groupErr, result, err, providerCalls,
                   lastCall, nonTerminalOnly, parResponses, deadlineExpired, switches,
                   dispatched, guardrailCalls, gateErr, resultChan, chanClosed, received,
                   other, lookup, walk>>

\* executeLoop has just called executeTools on a batch of two or more calls,
\* with concurrent dispatch enabled; triage also declares the faulty tool
InitFault ==
    /\ agents = [RunAgents EXCEPT ![1].Tools = <<"lookup", "charge", "faulty">>]
    /\ validateResult = NotValidated
    /\ pc = "tools"
    /\ maxTurns \in 1..MaxTurnsBound
    /\ root = 1 /\ input = "hi" /\ ctxCancelled = FALSE /\ session = Nil
    /\ parallelTools = TRUE
    /\ currentAgent = 1
    /\ \E b \in FaultBatches :
         /\ completion = Reply("", b, Nil, Nil)
         /\ toolCalls = toolCallsFromProviders(b)
         /\ dispatched = Len(b)
         /\ metrics = [ZeroMetrics EXCEPT !.TotalTokens = TokensPerReply, !.ToolCalls = Len(b)]
         /\ responses = [i \in 1..Len(b) |-> ZeroResponse]
         /\ pending = 1..Len(b)
    /\ turn = 0
    /\ messages = <<Message("user", "hi", Nil), Message("assistant", "", Nil)>>
    /\ groupErr = NoError /\ result = NoResult /\ err = NoError /\ providerCalls = 1
    /\ lastCall = Nil /\ nonTerminalOnly = TRUE /\ parResponses = Nil
    /\ deadlineExpired = FALSE /\ switches = 0
    /\ guardrailCalls = <<>> /\ gateErr = NoError
    /\ resultChan = <<>> /\ chanClosed = FALSE /\ received = <<>>
    /\ other = NoOther /\ lookup = NoLookup /\ walk = NoWalk

NextFault ==
    \/ \E i \in 1..MaxBatch : GoFuncReturns(i)
    \/ \E i \in 1..MaxBatch : GoFuncPanics(i)
    \/ ToolsReturn

SpecFault == InitFault /\ [][NextFault]_vars


\* --------------------------------------- a batch whose caller may cancel
\* the caller cancels the context it passed to Run while executeTools runs
CancelDuringBatch ==
    /\ pc = "tools"
    /\ ~ctxCancelled
    /\ ctxCancelled' = TRUE
    /\ UNCHANGED <<agents, validateResult, pc, maxTurns, parallelTools, root, input, session,
                   turn, currentAgent, messages, metrics, completion, toolCalls, responses,
                   pending, groupErr, result, err, providerCalls, lastCall,
                   nonTerminalOnly, parResponses, deadlineExpired, switches, dispatched,
                   guardrailCalls, gateErr, resultChan, chanClosed, received, other, lookup, walk>>

\* executeTools on any agent and batch, concurrent dispatch enabled, up to
\* its return to executeLoop
NextBatch ==
    \/ \E i \in 1..MaxBatch : GoFunc(i)
    \/ SeqIter
    \/ CancelDuringBatch
    \/ ToolsReturn

SpecBatch == InitTools /\ [][NextBatch]_vars


\* ------------------------------------------- lookups in the handoff map
\* the names the program gives its three agents: all distinct, or two
\* handoff candidates of one name, or a candidate named like the first agent
LookupNames ==
    {RunNames, <<"triage", "billing", "billing">>, <<"triage", "triage", "report">>}

\* the program calls a.GetHandoff(name) on an agent it built
CallGetHandoff(a, name) ==
    /\ pc = "build"
    /\ lookup' = [agent |-> a, name |-> name, got |-> GetHandoff(a, name)]
    /\ UNCHANGED <<agents, validateResult, pc, maxTurns, parallelTools, root, input,
                   ctxCancelled, session, turn, currentAgent, messages, metrics, completion,
                   toolCalls, responses, pending, groupErr, result, err, providerCalls,
                   lastCall, nonTerminalOnly, parResponses, deadlineExpired, switches,
                   dispatched, guardrailCalls, gateErr, resultChan, chanClosed, received,
                   other, walk>>

\* three agents built by NewAgent(name) without options
InitLookup ==
    /\ \E names \in LookupNames :
         agents = [a \in DOMAIN RunNames |->
                     NewAgent(names, a, "gpt-4", <<>>, <<>>, <<>>, FALSE)]
    /\ pc = "build"
    /\ validateResult = NotValidated
    /\ IdleRun

NextLookup ==
    \/ \E a, b \in DOMAIN RunNames : WithHandoffs(a, b)
    \/ \E a \in DOMAIN RunNames : \E name \in HandoffTargets : CallGetHandoff(a, name)

SpecLookup == InitLookup /\ [][NextLookup]_vars


\* ------------------------------------------- Validate, one call at a time
\* Agent.Validate executed step by step: walk.stack is the stack of
\* validateHandoffs calls in progress (the agent of each call and the index
\* of the next handoff its loop will take), walk.visited the map shared by
\* all of them, walk.err the error a call is returning through its callers.
WalkNames ==
    {UniqueNames, [UniqueNames EXCEPT ![2] = UniqueNames[1]],
     [UniqueNames EXCEPT ![3] = UniqueNames[2]]}

Frame(a) == [agent |-> a, next |-> 1]

Top == walk.stack[Len(walk.stack)]

Pop(stack) == SubSeq(stack, 1, Len(stack) - 1)

\* Validate up to its call validateHandoffs(make(map[string]bool)); the
\* map is empty, so the call on the receiver passes the entry check, puts
\* its name in the map and starts its loop
ValidateBegins ==
    /\ pc = "validate"
    /\ IF agents[1].Name = "" \/ agents[1].Model = ""
          \/ validateTools(agents[1].Tools) # NoError
       THEN /\ pc' = "validated"
            /\ validateResult' = Validate(1)
            /\ walk' = walk
       ELSE /\ walk' = [stack |-> <<Frame(1)>>, visited |-> {agents[1].Name}, err |-> NoError]
            /\ pc' = "walking"
            /\ validateResult' = validateResult
    /\ UNCHANGED <<agents, maxTurns, parallelTools, root, input, ctxCancelled, session, turn,
                   currentAgent, messages, metrics, completion, toolCalls, responses, pending,
                   groupErr, result, err, providerCalls, lastCall, nonTerminalOnly,
                   parResponses, deadlineExpired, switches, dispatched, guardrailCalls,
                   gateErr, resultChan, chanClosed, received, other, lookup>>

\* variant: the call on a handoff whose name is in the map does not
\* return an error; the loop takes the same handoff again
HandoffCall_retries ==
    /\ pc = "walking"
    /\ walk.stack # <<>> /\ walk.err = NoError
    /\ Top.next <= Len(agents[Top.agent].Handoffs)
    /\ LET h == agents[Top.agent].Handoffs[Top.next]
       IN  IF agents[h].Name \in walk.visited
           THEN walk' = walk
           ELSE walk' = [walk EXCEPT
                           !.stack = Append([@ EXCEPT ![Len(@)].next = @ + 1], Frame(h)),
                           !.visited = @ \cup {agents[h].Name}]
    /\ UNCHANGED <<agents, validateResult, pc, maxTurns, parallelTools, root, input,
                   ctxCancelled, session, turn, currentAgent, messages, metrics, completion,
                   toolCalls, responses, pending, groupErr, result, err, providerCalls,
                   lastCall, nonTerminalOnly, parResponses, deadlineExpired, switches,
                   dispatched, guardrailCalls, gateErr, resultChan, chanClosed, received,
                   other, lookup>>

\* one iteration of the loop over a.Handoffs: handoff.validateHandoffs(visited)
\* is called; it returns the error at once when the handoff's name is in
\* the map, and otherwise adds the name and starts its own loop
HandoffCall ==
    /\ pc = "walking"
    /\ walk.stack # <<>> /\ walk.err = NoError
    /\ Top.next <= Len(agents[Top.agent].Handoffs)
    /\ LET h == agents[Top.agent].Handoffs[Top.next]
       IN  IF agents[h].Name \in walk.visited
           THEN walk' = [walk EXCEPT
                           !.stack[Len(walk.stack)].next = @ + 1,
                           !.err = Error("circular handoff detected", agents[h].Name)]
           ELSE walk' = [walk EXCEPT
                           !.stack = Append([@ EXCEPT ![Len(@)].next = @ + 1], Frame(h)),
                           !.visited = @ \cup {agents[h].Name}]
    /\ UNCHANGED <<agents, validateResult, pc, maxTurns, parallelTools, root, input,
                   ctxCancelled, session, turn, currentAgent, messages, metrics, completion,
                   toolCalls, responses, pending, groupErr, result, err, providerCalls,
                   lastCall, nonTerminalOnly, parResponses, deadlineExpired, switches,
                   dispatched, guardrailCalls, gateErr, resultChan, chanClosed, received,
                   other, lookup>>

\* a validateHandoffs call returns, with the error of a handoff or with nil
\* after its last handoff; the deferred delete removes its name from the map
HandoffReturn ==
    /\ pc = "walking"
    /\ walk.stack # <<>>
    /\ walk.err # NoError \/ Top.next > Len(agents[Top.agent].Handoffs)
    /\ walk' = [walk EXCEPT !.stack = Pop(@),
                            !.visited = @ \ {agents[Top.agent].Name}]
    /\ UNCHANGED <<agents, validateResult, pc, maxTurns, parallelTools, root, input,
                   ctxCancelled, session, turn, currentAgent, messages, metrics, completion,
                   toolCalls, responses, pending, groupErr, result, err, providerCalls,
                   lastCall, nonTerminalOnly, parResponses, deadlineExpired, switches,
                   dispatched, guardrailCalls, gateErr, resultChan, chanClosed, received,
                   other, lookup>>

\* Validate returns what the call on the receiver returned
ValidateReturns ==
    /\ pc = "walking"
    /\ walk.stack = <<>>
    /\ pc' = "validated"
    /\ validateResult' = walk.err
    /\ UNCHANGED <<agents, maxTurns, parallelTools, root, input, ctxCancelled, session, turn,
                   currentAgent, messages, metrics, completion, toolCalls, responses, pending,
                   groupErr, result, err, providerCalls, lastCall, nonTerminalOnly,
                   parResponses, deadlineExpired, switches, dispatched, guardrailCalls,
                   gateErr, resultChan, chanClosed, received, other, lookup, walk>>

InitWalk ==
    /\ \E g \in Graphs, names \in WalkNames, model \in RootModels, tools \in RootTools :
         agents = [a \in AgentIds |->
                     NewAgent(names, a, IF a = 1 THEN model ELSE "gpt-4",
                              IF a = 1 THEN tools ELSE <<>>, HandoffsOf(g, a), <<>>, FALSE)]
    /\ validateResult = NotValidated
    /\ pc = "validate"
    /\ IdleRun

NextWalk ==
    \/ ValidateBegins
    \/ HandoffCall
    \/ HandoffReturn
    \/ ValidateReturns

SpecWalk == InitWalk /\ [][NextWalk]_vars

\* Validate is an ordinary call: the goroutine that made it keeps running
FairSpecWalk == SpecWalk /\ WF_<<pc, walk>>(NextWalk)


\* ------------------------------------------------------------------------
\* C1 (as stated): whenever the provider never emits a terminal signal, Run
\* fails with 'max turns exceeded' after exactly maxTurns completion calls.
C1_NonTerminalProviderExhaustsBudget ==
    (pc = "done" /\ nonTerminalOnly) =>
        (err = ErrMaxTurnsExceeded /\ providerCalls = maxTurns)

\* C1 (amended): a run whose provider never emits a terminal signal, and
\* which is not ended by a session load failure, a guardrail rejection or a
\* cancelled context, fails with 'max turns exceeded' after exactly maxTurns
\* completion calls; 'max turns exceeded' is never returned after fewer or
\* more calls.
C1_BudgetExactUnlessAborted ==
    /\ (pc = "done" /\ nonTerminalOnly
        /\ err.err \notin {"failed to load session", "guardrail validation failed",
                           "context cancelled"})
         => (err = ErrMaxTurnsExceeded /\ providerCalls = maxTurns)
    /\ err = ErrMaxTurnsExceeded => providerCalls = maxTurns

C1_Witness ==
    /\ pc = "done"
    /\ err = ErrMaxTurnsExceeded
    /\ maxTurns >= 2
    /\ providerCalls = maxTurns
    /\ metrics.ToolCalls > 0
    /\ metrics.Handoffs > 0

\* ------------------------------------------------------------------------
\* C2: when every guardrail, provider and tool call returns, every Run
\* terminates, it makes at most maxTurns completion calls, and it ends with
\* a RunResult and no error or with an error and no RunResult.
C2_RunTerminatesWithOneOutcome ==
    /\ <>(pc = "done")
    /\ [](providerCalls <= maxTurns)
    /\ [](pc = "done" => \/ (result # NoResult /\ err = NoError)
                         \/ (result = NoResult /\ err # NoError))

C2_Witness ==
    /\ pc = "done"
    /\ result # NoResult
    /\ err = NoError
    /\ maxTurns >= 2
    /\ providerCalls = maxTurns

\* ------------------------------------------------------------------------
\* the agents reachable from a set of agents along handoff edges
RECURSIVE ReachFrom(_)
ReachFrom(S) ==
    LET T == S \cup {b \in DOMAIN agents : \E a \in S : b \in SeqToSet(agents[a].Handoffs)}
    IN  IF T = S THEN S ELSE ReachFrom(T)

Successors(a) == SeqToSet(agents[a].Handoffs)

\* the handoff graph reachable from a contains a cycle
HasCycleFrom(a) ==
    \E x \in ReachFrom({a}) : Successors(x) # {} /\ x \in ReachFrom(Successors(x))

\* no two agents reachable from a share a name
DistinctNamesFrom(a) ==
    \A x, y \in ReachFrom({a}) : x # y => agents[x].Name # agents[y].Name

HasDefect(a) ==
    \/ HasCycleFrom(a)
    \/ agents[a].Name = ""
    \/ agents[a].Model = ""
    \/ \E i \in 1..Len(agents[a].Tools) : ToolValidate(agents[a].Tools[i]) # NoError

\* C3 (as stated): Validate(A) returns an error iff the handoff graph from A
\* has a cycle, or A's name or model is empty, or a tool of A is invalid.
C3_ValidateFailsIffDefect ==
    pc = "validated" => ((validateResult # NoError) <=> HasDefect(1))

\* C3 (amended): for every agent A such that no two agents reachable from A
\* share a name, Validate(A) returns an error iff the handoff graph from A
\* has a cycle, or A's name or model is empty, or a tool of A is invalid.
C3_ValidateFailsIffDefectDistinctNames ==
    (pc = "validated" /\ DistinctNamesFrom(1)) =>
        ((validateResult # NoError) <=> HasDefect(1))

C3_Witness ==
    /\ pc = "validated"
    /\ DistinctNamesFrom(1)
    /\ validateResult.err = "circular handoff detected"
    /\ validateResult.arg # agents[1].Name
    /\ Cardinality(ReachFrom({1})) = 3

\* ------------------------------------------------------------------------
\* C4: during and after a dispatch, under both policies and in every
\* completion order, there are as many response slots as tool calls, a slot
\* whose call has run carries that call's id, and a slot whose call has not
\* run yet is still empty.
C4_OneResponsePerCallInItsSlot ==
    pc = "tools" =>
        /\ Len(responses) = Len(toolCalls)
        /\ \A i \in 1..Len(toolCalls) :
             IF i \in pending THEN responses[i] = ZeroResponse
             ELSE responses[i].ToolCallID = toolCalls[i].ID

\* the second call of a concurrent batch finished before the first ran
C4_Witness ==
    /\ pc = "tools"
    /\ usesParallel
    /\ Len(toolCalls) = 2
    /\ pending = {1}
    /\ responses[2].ToolCallID = toolCalls[2].ID

\* ------------------------------------------------------------------------
\* C5: for a batch whose names all resolve, the concurrent and the
\* sequential dispatch return the same responses: same id, content and
\* error in every slot.
C5_ConcurrentEqualsSequential ==
    (pc = "compared"
     /\ \A i \in 1..Len(toolCalls) : findTool(currentAgent, toolCalls[i].Name) # Nil)
        => responses = parResponses

C5_Witness ==
    /\ pc = "compared"
    /\ Len(toolCalls) = 2
    /\ \A i \in 1..Len(toolCalls) : findTool(currentAgent, toolCalls[i].Name) # Nil
    /\ responses[1].Error # NoError
    /\ responses[2].Content = "found"
    /\ responses = parResponses

\* ------------------------------------------------------------------------
\* the response of a call that ran: its own id and what the tool returned
ExecutedResponse(agent, call) ==
    [ToolCallID |-> call.ID,
     Content |-> ToolExecute(findTool(agent, call.Name)).result,
     Error |-> ToolExecute(findTool(agent, call.Name)).err]

\* C6: when a dispatch is over, under both policies, the slot of a call whose
\* name the current agent does not declare holds a 'tool not found' error
\* and no content, and the slot of every other call of the batch holds the
\* response of that call's execution.
C6_UnknownToolDoesNotAbortSiblings ==
    (pc = "tools" /\ pending = {}) =>
        \A i \in 1..Len(toolCalls) :
            IF findTool(currentAgent, toolCalls[i].Name) = Nil
            THEN /\ responses[i].ToolCallID = toolCalls[i].ID
                 /\ responses[i].Error = Error("tool not found", toolCalls[i].Name)
                 /\ responses[i].Content = Nil
            ELSE responses[i] = ExecutedResponse(currentAgent, toolCalls[i])

\* sequential dispatch: the first call is unknown, the second still ran
C6_Witness ==
    /\ pc = "tools"
    /\ pending = {}
    /\ ~usesParallel
    /\ Len(toolCalls) = 2
    /\ responses[1].Error.err = "tool not found"
    /\ responses[2].Content = "found"

\* ------------------------------------------------------------------------
\* C7: when the dispatch of a reply's N tool calls returns, exactly N
\* tool-role messages are appended directly after the assistant reply, in
\* call order, the i-th carrying the i-th call's id as tool_call_id, and the
\* loop goes on to the next turn.
C7_ToolMessagesFollowReplyInCallOrder ==
    [][(pc = "tools" /\ pc' # "tools") =>
        /\ Len(messages') = Len(messages) + Len(toolCalls)
        /\ SubSeq(messages', 1, Len(messages)) = messages
        /\ messages[Len(messages)] = messageFromProviders(completion.Message)
        /\ \A i \in 1..Len(toolCalls) :
             /\ messages'[Len(messages) + i].Role = "tool"
             /\ messages'[Len(messages) + i].tool_call_id = toolCalls[i].ID
        /\ pc' = "loop"
        /\ turn' = turn + 1]_vars

C7_Witness ==
    /\ pc = "loop"
    /\ Len(messages) >= 4
    /\ messages[Len(messages) - 2].Role = "assistant"
    /\ messages[Len(messages) - 1] = Message("tool", "<nil>", CallIds[1])
    /\ messages[Len(messages)] = Message("tool", "found", CallIds[2])

\* ------------------------------------------------------------------------
\* C8 (as stated): the tool message appended for a failed call carries the
\* error as its payload.
C8_FailedCallMessageCarriesError ==
    [][(pc = "tools" /\ pc' = "loop") =>
        \A i \in 1..Len(toolCalls) :
            responses[i].Error # NoError =>
                messages'[Len(messages) + i].Content = responses[i].Error.err]_vars

\* ------------------------------------------------------------------------
\* C9: a dispatch never ends the run: whatever errors the calls of the batch
\* recorded, no function of the group returned an error, executeTools
\* returns its responses and the loop goes on to the next turn without an
\* error.
C9_ToolErrorsAreNotFatal ==
    [][(pc = "tools" /\ pc' # "tools") =>
        /\ groupErr = NoError
        /\ pc' = "loop"
        /\ turn' = turn + 1
        /\ err' = NoError
        /\ result' = NoResult]_vars

\* a concurrent batch of two failed calls was folded into the history and
\* the run went on to the next turn
C9_Witness ==
    /\ pc = "loop"
    /\ parallelTools
    /\ err = NoError
    /\ turn >= 1
    /\ Len(messages) >= 4
    /\ messages[Len(messages) - 1] = Message("tool", "<nil>", CallIds[1])
    /\ messages[Len(messages)] = Message("tool", "<nil>", CallIds[2])

\* ------------------------------------------------------------------------
\* the handoff set of an agent holds an agent of that name
InHandoffSet(a, name) == \E h \in SeqToSet(agents[a].Handoffs) : agents[h].Name = name

C11_MetricsCountWhatHappened ==
    (pc = "done" /\ err = NoError) =>
        /\ result.Metrics.TotalTurns = providerCalls
        /\ result.Metrics.Handoffs = switches
        /\ result.Metrics.ToolCalls = dispatched
        /\ (switches = 1 /\ providerCalls = 2 /\ ~agents[currentAgent].OutputType) =>
              /\ result.Metrics.Handoffs = 1
              /\ result.Metrics.TotalTurns = 2
              /\ LET h == result.Messages
                     n == Len(h)
                 IN  /\ n >= 3
                     /\ messagesToProviders(SubSeq(h, 1, n - 1)) = lastCall.messages
                     /\ h[n - 1].Role = "assistant"
                     /\ h[n].Role = "assistant"
                     /\ h[n].Content = result.FinalOutput

\* triage handed off to billing and billing answered in plain text
C11_Witness ==
    /\ pc = "done"
    /\ err = NoError
    /\ switches = 1
    /\ providerCalls = 2
    /\ result.Metrics.Handoffs = 1
    /\ result.Metrics.TotalTurns = 2
    /\ result.Agent = 2
    /\ result.Messages[Len(result.Messages)].Content = "ok"

\* ------------------------------------------------------------------------
\* C12: when the guardrail gate of turn k (turn index k - 1) is evaluated
\* and a guardrail of the current agent fails, the run ends in that step
\* with a guardrail-violation error and no result; no completion call is
\* made for turn k, so the provider has been called exactly k - 1 times; and
\* nothing (no completion, no tool dispatch) happens after a run has ended.
C12_GuardrailFailureAbortsBeforeCompletion ==
    /\ [][(/\ pc = "loop" /\ pc' # "loop"
           /\ loopCondition
           /\ ~ctxCancelled
           /\ validateGuardrails(currentAgent, messages) # NoError)
          => /\ pc' = "done"
             /\ err'.err = "guardrail validation failed"
             /\ err'.arg = validateGuardrails(currentAgent, messages).arg
             /\ err'.cause = validateGuardrails(currentAgent, messages).cause
             /\ result' = NoResult
             /\ providerCalls' = providerCalls
             /\ providerCalls = (turn + 1) - 1
             /\ dispatched' = dispatched
             /\ pending' = {}]_vars
    /\ [][pc # "done"]_vars
    /\ [](pc = "done" /\ err.err = "guardrail validation failed"
          => providerCalls = turn /\ pending = {})

\* billing's guardrail rejected the text of the handoff reply on turn 2,
\* after one completion call
C12_Witness ==
    /\ pc = "done"
    /\ err = Wrap("guardrail validation failed", "noSecrets", "secret found")
    /\ result = NoResult
    /\ currentAgent = 2
    /\ turn = 1
    /\ providerCalls = 1

\* ------------------------------------------------------------------------
\* C13 (as stated): a run that fails after at least one completed turn, by
\* a guardrail violation, a provider error, an unresolved handoff or budget
\* exhaustion, still hands the caller the metrics accumulated so far:
\* TotalTurns is the number of completed turns and TotalTokens the usage of
\* every completion obtained.
C13_FailedRunStillReportsMetrics ==
    (/\ pc = "done"
     /\ err.err \in {"guardrail validation failed", "completion failed",
                     "handoff agent not found", "maximum turns exceeded"}
     /\ turn >= 1)
    => /\ result # NoResult
       /\ result.Metrics.TotalTurns = turn
       /\ result.Metrics.TotalTokens = metrics.TotalTokens

\* ------------------------------------------------------------------------
\* the run made one completion call, for an agent without output contract,
\* and the reply carried no tool calls and no handoff
PlainFirstReply ==
    /\ pc \in {"save", "done"}
    /\ providerCalls = 1
    /\ completion # NoCompletion
    /\ ~agents[currentAgent].OutputType
    /\ takesNone(currentAgent, completion)

\* C14 (as stated): a first reply without tool calls and handoff, for an
\* agent without output contract, ends the run after exactly one completion
\* call with FinalOutput the reply's text, TotalTurns 1, ToolCalls 0,
\* Handoffs 0 and a history that is the input message followed by the reply.
C14_PlainFirstReplyIsFinal ==
    PlainFirstReply =>
        /\ err = NoError
        /\ result.FinalOutput = completion.Message.Content
        /\ result.Metrics.TotalTurns = 1
        /\ result.Metrics.ToolCalls = 0
        /\ result.Metrics.Handoffs = 0
        /\ result.Agent = root
        /\ result.Messages = <<Message("user", input, Nil),
                               Message("assistant", completion.Message.Content, Nil)>>

\* C14 (amended): such a reply ends the loop after exactly one completion
\* call with FinalOutput the reply's text, TotalTurns 1, ToolCalls 0 and
\* Handoffs 0; the history ends with the input message followed by the
\* reply, and holds nothing else when the Runner has no session. Run returns
\* that result unless the session write fails, in which case it returns a
\* 'failed to save session' error and no result.
C14_PlainFirstReplyIsFinalUnlessSaveFails ==
    PlainFirstReply =>
        \/ /\ err = NoError
           /\ result.FinalOutput = completion.Message.Content
           /\ result.Metrics.TotalTurns = 1
           /\ result.Metrics.ToolCalls = 0
           /\ result.Metrics.Handoffs = 0
           /\ result.Agent = root
           /\ LET h == result.Messages
              IN  /\ Len(h) >= 2
                  /\ h[Len(h) - 1] = Message("user", input, Nil)
                  /\ h[Len(h)] = Message("assistant", completion.Message.Content, Nil)
                  /\ session = Nil => Len(h) = 2
        \/ /\ pc = "done"
           /\ session # Nil
           /\ err = Error("failed to save session", "")
           /\ result = NoResult

\* triage answered "ok" at once, no session
C14_Witness ==
    /\ pc = "done"
    /\ session = Nil
    /\ providerCalls = 1
    /\ err = NoError
    /\ result.FinalOutput = "ok"
    /\ result.Metrics = [TotalTurns |-> 1, TotalTokens |-> TokensPerReply,
                         ToolCalls |-> 0, Handoffs |-> 0]
    /\ result.Messages = <<Message("user", "hi", Nil), Message("assistant", "ok", Nil)>>

\* ------------------------------------------------------------------------
\* C15: whatever signals a reply carries, exactly one branch of the loop is
\* open, in the priority structured output (agent with output contract) >
\* handoff > tool calls. Structured output ends the loop with that value:
\* the agent is not switched, no tool call is dispatched, nothing is
\* appended. A resolvable handoff that comes with tool calls switches the
\* agent and goes to the next turn: none of the tool calls is dispatched and
\* no tool message is appended.
C15_OneBranchByPriority ==
    /\ [](pc = "branch" =>
            Cardinality({b \in {"structured", "handoff", "tools", "none"} :
                \/ b = "structured" /\ ENABLED BranchStructured
                \/ b = "handoff" /\ (ENABLED BranchHandoff \/ ENABLED BranchHandoffNotFound)
                \/ b = "tools" /\ ENABLED BranchTools
                \/ b = "none" /\ (ENABLED BranchFinal \/ ENABLED BranchContinue)}) = 1)
    /\ [][(/\ pc = "branch"
           /\ agents[currentAgent].OutputType
           /\ completion.StructuredOutput # Nil)
          => /\ pc' = "save"
             /\ result'.FinalOutput = completion.StructuredOutput
             /\ result'.Agent = currentAgent
             /\ currentAgent' = currentAgent
             /\ switches' = switches
             /\ dispatched' = dispatched
             /\ metrics'.ToolCalls = metrics.ToolCalls
             /\ metrics'.Handoffs = metrics.Handoffs
             /\ messages' = messages]_vars
    /\ [][(/\ pc = "branch"
           /\ ~takesStructured(currentAgent, completion)
           /\ completion.Handoff # Nil
           /\ Len(completion.ToolCalls) > 0
           /\ InHandoffSet(currentAgent, completion.Handoff))
          => /\ pc' = "loop"
             /\ agents[currentAgent'].Name = completion.Handoff
             /\ switches' = switches + 1
             /\ dispatched' = dispatched
             /\ metrics'.ToolCalls = metrics.ToolCalls
             /\ pending' = pending
             /\ responses' = responses
             /\ messages' = messages]_vars

\* triage's reply carried a handoff to billing together with a tool call:
\* billing is current, nothing was dispatched, the history ends with the reply
C15_Witness ==
    /\ pc = "loop"
    /\ currentAgent = 2
    /\ switches = 1
    /\ dispatched = 0
    /\ metrics.ToolCalls = 0
    /\ messages[Len(messages)] = Message("assistant", "", Nil)

\* ------------------------------------------------------------------------
\* C16: a handoff request (not pre-empted by structured output) whose target
\* name is not in the current agent's handoff set is fatal: the run ends in
\* that step with a 'handoff agent not found' error naming the target and no
\* result, the current agent is not switched, and nothing (no guardrail,
\* completion or tool call) happens after the run has ended.
C16_UnknownHandoffTargetIsFatal ==
    /\ [][(/\ pc = "branch"
           /\ ~takesStructured(currentAgent, completion)
           /\ completion.Handoff # Nil
           /\ ~InHandoffSet(currentAgent, completion.Handoff))
          => /\ pc' = "done"
             /\ err' = Error("handoff agent not found", completion.Handoff)
             /\ result' = NoResult
             /\ currentAgent' = currentAgent
             /\ switches' = switches
             /\ providerCalls' = providerCalls
             /\ dispatched' = dispatched
             /\ pending' = pending
             /\ messages' = messages]_vars
    /\ [](pc = "done" /\ err.err = "handoff agent not found"
          => /\ ~InHandoffSet(currentAgent, err.arg)
             /\ completion.Handoff = err.arg
             /\ lastCall.agent = currentAgent
             /\ pending = {})
    /\ [][pc = "done" => FALSE]_vars

\* billing, entered by handoff, asked to hand back to triage, which exists
\* but is not in billing's handoff set
C16_Witness ==
    /\ pc = "done"
    /\ err = Error("handoff agent not found", "triage")
    /\ result = NoResult
    /\ currentAgent = 2
    /\ switches = 1
    /\ providerCalls = 2

\* ------------------------------------------------------------------------
\* C17: a completion call that returns an error instead of a reply ends the
\* run in that step: Run returns a 'completion failed' error wrapping the
\* provider's error and no result, the turn appends nothing to the history,
\* the session is not written, no tool call is dispatched, and nothing
\* happens after the run has ended.
C17_ProviderErrorIsFatal ==
    /\ [][(providerCalls' = providerCalls + 1 /\ pc' # "branch")
          => /\ pc' = "done"
             /\ err'.err = "completion failed"
             /\ err'.arg \in ProviderErrors
             /\ result' = NoResult
             /\ messages' = messages
             /\ session' = session
             /\ metrics' = metrics
             /\ dispatched' = dispatched
             /\ pending' = pending]_vars
    /\ [](pc = "done" /\ err.err = "completion failed"
          => /\ result = NoResult
             /\ messagesToProviders(messages) = lastCall.messages
             /\ pending = {})
    /\ [][pc = "done" => /\ providerCalls' = providerCalls
                          /\ dispatched' = dispatched
                          /\ session' = session]_vars

\* the second completion call of a run failed, after a tool-call turn
C17_Witness ==
    /\ pc = "done"
    /\ err = Error("completion failed", "rate limited")
    /\ result = NoResult
    /\ providerCalls = 2
    /\ dispatched >= 1
    /\ messagesToProviders(messages) = lastCall.messages

\* ------------------------------------------------------------------------
\* the index of the first guardrail of gs that refuses content, 0 if none
FirstFailing(gs, content) ==
    IF \E i \in 1..Len(gs) : GuardrailValidate(gs[i], content) # NoError
    THEN CHOOSE i \in 1..Len(gs) :
           /\ GuardrailValidate(gs[i], content) # NoError
           /\ \A j \in 1..(i - 1) : GuardrailValidate(gs[j], content) = NoError
    ELSE 0

\* C18: with no guardrails or an empty history the gate passes without
\* calling a guardrail. Otherwise the guardrails are called in declaration
\* order, each on the content of the last message of the history; the gate
\* returns at the first guardrail that fails, with an error naming that
\* guardrail (its implementation type) and wrapping its reason, and calls no
\* guardrail declared after it; it passes when all were called and none
\* failed. The loop's gate function returns the same error.
C18_GuardrailsInOrderOnLastMessageFailFast ==
    LET gs == agents[currentAgent].Guardrails
        n == Len(guardrailCalls)
    IN  /\ (pc \in {"gate", "gated"} /\ (Len(messages) = 0 \/ gs = <<>>))
             => guardrailCalls = <<>> /\ gateErr = NoError
        /\ (pc \in {"gate", "gated"} /\ Len(messages) # 0 /\ gs # <<>>)
             => LET last == messages[Len(messages)].Content
                    f == FirstFailing(gs, last)
                IN  /\ n <= Len(gs)
                    /\ \A i \in 1..n : guardrailCalls[i] = [guardrail |-> gs[i], content |-> last]
                    /\ f # 0 => n <= f
                    /\ pc = "gated" =>
                         IF f # 0
                         THEN /\ n = f
                              /\ gateErr = Wrap("guardrail failed", gs[f],
                                                GuardrailValidate(gs[f], last).err)
                         ELSE n = Len(gs) /\ gateErr = NoError
        /\ pc = "gated" => gateErr = validateGuardrails(currentAgent, messages)

\* two guardrails that both refuse the last message: only the first was
\* called, on the last message and not the earlier one, and it is the one
\* the error names
C18_Witness ==
    /\ pc = "gated"
    /\ agents[currentAgent].Guardrails = <<"shortOnly", "noSecrets">>
    /\ Len(messages) = 2
    /\ messages[1].Content = "ok"
    /\ messages[2].Content = "long secret"
    /\ guardrailCalls = <<[guardrail |-> "shortOnly", content |-> "long secret"]>>
    /\ gateErr = Wrap("guardrail failed", "shortOnly", "too long")

C20_DeadlinePropagatesToTheRun ==
    /\ [][(providerCalls' = providerCalls + 1 /\ deadlineExpired) => lastCall'.ctxDone]_vars
    /\ [](pc = "tools" /\ pending # {} /\ deadlineExpired => ToolContextDone)
    /\ [][(pc = "loop" /\ pc' # "loop" /\ loopCondition /\ deadlineExpired)
          => pc' = "done" /\ err'.err = "context cancelled"]_vars

\* ------------------------------------------------------------------------
\* C21: whenever Run returns, the goroutine can send at once (the buffer has
\* room whether or not anybody receives), it sends exactly one value and
\* then closes the channel; the value is never nil: on success it is the
\* result Run returned, on failure a RunResult whose FinalOutput is the
\* error text and nothing else; the consumer receives that value, and every
\* RunAsync call whose Run returns ends with the channel closed.
C21_RunAsyncDeliversOneResult ==
    /\ [](pc = "done" => resultChan = <<>> /\ ~chanClosed /\ ENABLED AsyncSend)
    /\ [](Len(resultChan) + Len(received) <= 1)
    /\ [](pc \in {"sent", "closed"} => Len(resultChan) + Len(received) = 1)
    /\ [](chanClosed => pc = "closed")
    /\ [](\A v \in SeqToSet(resultChan) \cup SeqToSet(received) :
            /\ ~v.isNil
            /\ IF err = NoError
               THEN v.result = result
               ELSE /\ v.result.FinalOutput = ErrorText(err)
                    /\ v.result.Messages = <<>>
                    /\ v.result.Agent = 0)
    /\ [][resultChan' # resultChan => pc' # "done"]_vars
    /\ <>(chanClosed /\ Len(received) = 1)

\* the run ran out of turns: the consumer holds the degraded result and the
\* channel is closed
C21_Witness ==
    /\ pc = "closed"
    /\ chanClosed
    /\ resultChan = <<>>
    /\ err = ErrMaxTurnsExceeded
    /\ providerCalls = 2
    /\ received = <<[isNil |-> FALSE, result |-> DegradedResult(ErrMaxTurnsExceeded)]>>


C23_SessionGrowsByNewMessagesOnly ==
    [][pc = "save" /\ pc' = "done" /\ err' = NoError /\ session # Nil =>
          LET new == SubSeq(result.Messages, Len(session) + 1, Len(result.Messages))
          IN  /\ Len(result.Messages) > Len(session)
              /\ session' = session \o messagesToMemory(new)]_vars


\* ------------------------------------------------------------------------
\* what executeLoop returns when the Run is the only one in progress, from
\* turn t on, with the scripted provider
RECURSIVE LoopAlone(_, _, _, _)
LoopAlone(t, agent, msgs, m) ==
    IF ~(t < maxTurns) THEN [result |-> NoResult, err |-> ErrMaxTurnsExceeded]
    ELSE IF validateGuardrails(agent, msgs) # NoError
    THEN [result |-> NoResult,
          err |-> Wrap("guardrail validation failed", validateGuardrails(agent, msgs).arg,
                       validateGuardrails(agent, msgs).cause)]
    ELSE LET reply == ScriptedComplete(agent, msgs)
             h == Append(msgs, messageFromProviders(reply.Message))
             m1 == [m EXCEPT !.TotalTokens = @ + reply.Usage]
             calls == toolCallsFromProviders(reply.ToolCalls)
             resps == [i \in 1..Len(calls) |->
                         IF parallelTools /\ Len(calls) > 1
                         THEN goFunc(agent, calls[i]).response
                         ELSE seqBody(agent, calls[i])]
         IN  IF takesStructured(agent, reply)
             THEN [result |-> [FinalOutput |-> reply.StructuredOutput, Messages |-> h,
                               Agent |-> agent,
                               Metrics |-> [m1 EXCEPT !.TotalTurns = t + 1]],
                   err |-> NoError]
             ELSE IF takesHandoff(agent, reply)
             THEN IF GetHandoff(agent, reply.Handoff).ok
                  THEN LoopAlone(t + 1, GetHandoff(agent, reply.Handoff).agent, h,
                                 [m1 EXCEPT !.Handoffs = @ + 1])
                  ELSE [result |-> NoResult,
                        err |-> Error("handoff agent not found", reply.Handoff)]
             ELSE IF takesTools(agent, reply)
             THEN LoopAlone(t + 1, agent, h \o toolMessages(resps),
                            [m1 EXCEPT !.ToolCalls = @ + Len(calls)])
             ELSE IF agents[agent].OutputType
             THEN LoopAlone(t + 1, agent, h, m1)
             ELSE [result |-> [FinalOutput |-> reply.Message.Content, Messages |-> h,
                               Agent |-> agent,
                               Metrics |-> [m1 EXCEPT !.TotalTurns = t + 1]],
                   err |-> NoError]

\* what Run(agent, text) returns when it is executed alone
RunAlone(agent, text) == LoopAlone(0, agent, <<Message("user", text, Nil)>>, ZeroMetrics)

\* C24: a Run never changes an Agent Definition (name, model, tools,
\* guardrails, handoffs, handoff map of any agent of the graph); a Run starts
\* from a history and metrics of its own, and no step of a Run touches what
\* the other Run owns; so each of two Runs in progress at once on the same
\* agents returns, with a deterministic provider, what it returns when it is
\* executed alone.
C24_ConcurrentRunsDoNotInterfere ==
    /\ [][agents' = agents]_vars
    /\ [][other' = other /\ pc = "run" /\ pc' = "loop" =>
            /\ messages' = <<Message("user", input, Nil)>>
            /\ metrics' = ZeroMetrics /\ turn' = 0 /\ currentAgent' = root]_vars
    /\ [][other' # other => other' = RunState /\ RunState' = other]_vars
    /\ [](pc = "done" =>
            /\ result = RunAlone(root, input).result
            /\ err = RunAlone(root, input).err)
    /\ [](other.pc = "done" =>
            /\ other.result = RunAlone(other.root, other.input).result
            /\ other.err = RunAlone(other.root, other.input).err)

\* the Run on triage returned its answer after two tool calls while the Run
\* on billing, started before, waits between its completion and its handoff
C24_Witness ==
    /\ pc = "done" /\ root = 1 /\ err = NoError
    /\ result.FinalOutput = "ok" /\ result.Metrics.ToolCalls = 2
    /\ result = RunAlone(1, "hi").result
    /\ other.pc = "branch" /\ other.root = 2 /\ other.providerCalls = 1
    /\ agents = RunAgents


\* ------------------------------------------------------------------------
\* C25: a handoff graph with a cycle cannot be built by NewAgent and
\* WithHandoffs without an error being reported: while the program builds
\* its agents a cyclic graph comes with an error, no Run is ever in progress
\* on a root whose handoff graph has a cycle, and no handoff is followed in
\* such a graph.
C25_CyclicGraphIsNeverBuiltNorRun ==
    /\ [](pc = "build" /\ HasCycleFrom(root) => err # NoError)
    /\ [](pc # "build" => ~HasCycleFrom(root))
    /\ [][currentAgent' # currentAgent => ~HasCycleFrom(root)]_vars


\* ------------------------------------------------------------------------
\* C26: in concurrent dispatch a call whose execution path raises an
\* unrecoverable fault makes the group fail: the Run does not stop without
\* returning, the fault is the group's error, executeTools returns that
\* error and no responses, and the Run ends with 'tool execution failed' and
\* no result.
C26_FaultAbandonsDispatch ==
    /\ [](pc # "crashed")
    /\ [][\A i \in pending :
            (Panics(currentAgent, toolCalls[i]) /\ (pc' = "crashed" \/ i \notin pending'))
            => /\ pc' = "tools"
               /\ groupErr' # NoError]_vars
    /\ [][pc = "tools" /\ pending = {} /\ groupErr # NoError /\ pc' # pc =>
            /\ pc' = "done"
            /\ err' = Error("tool execution failed", groupErr.err)
            /\ result' = NoResult
            /\ messages' = messages]_vars


\* ------------------------------------------------------------------------
\* C27: in a concurrent batch the context the calls share is done exactly
\* when the context of the run is done: a call that fails, is unknown or
\* returns a cancellation error leaves the context of its siblings as it was.
C27_SiblingsKeepTheirContext ==
    /\ [](pc = "tools" /\ usesParallel => (GroupContextDone <=> RunContextDone))
    /\ [][pc = "tools" /\ usesParallel /\ pending' # pending /\ pc' = "tools" =>
            (GroupContextDone' <=> GroupContextDone)]_vars

\* the first call of a batch of two has failed, the second has not run yet
\* and its context is not done
C27_Witness ==
    /\ pc = "tools" /\ usesParallel
    /\ pending = {2}
    /\ responses[1].Error = Error("charge declined", "")
    /\ ~ctxCancelled
    /\ ~GroupContextDone


\* ------------------------------------------------------------------------
\* C28: a Run does not overlap its own steps. While a call of a batch has
\* not finished, the Run stays in executeTools: the history, the turn and
\* the number of completion calls do not change. The tool messages are
\* appended, one per filled slot, and the next turn begins only when every
\* call of the batch has finished; a completion call is only made from the
\* top of a turn, with no batch in flight.
C28_NoOverlapWithinARun ==
    /\ [][pc = "tools" /\ pending # {} =>
            /\ pc' = "tools"
            /\ messages' = messages /\ turn' = turn
            /\ providerCalls' = providerCalls /\ lastCall' = lastCall]_vars
    /\ [][pc = "tools" /\ pc' # "tools" =>
            /\ pending = {}
            /\ \A i \in 1..Len(toolCalls) : responses[i].ToolCallID = toolCalls[i].ID
            /\ pc' = "loop" => /\ Len(messages') = Len(messages) + Len(toolCalls)
                               /\ turn' = turn + 1]_vars
    /\ [][providerCalls' # providerCalls => pc = "loop" /\ pending = {} /\ toolCalls = <<>>]_vars

\* both calls of a concurrent batch have finished and their two tool
\* messages are in the history of the next turn, before its completion call
C28_Witness ==
    /\ pc = "loop" /\ turn = 1 /\ parallelTools
    /\ providerCalls = 1 /\ dispatched = 2
    /\ Len(messages) = 4
    /\ messages[3].Role = "tool" /\ messages[4].Role = "tool"
    /\ pending = {}


\* ------------------------------------------------------------------------
\* the batch is dispatched under the sequential policy
SequentialPolicy == ~parallelTools \/ Len(toolCalls) = 1

\* C29: a batch is dispatched sequentially exactly when parallel tools are
\* disabled or the batch has one call. Under the sequential policy the calls
\* run one at a time in input order: the call that runs is the first that
\* has not run, every call before it has returned and none after it has
\* started; and the next call runs whatever the earlier calls returned, so a
\* failing or unknown call stops none of the calls after it. Under the other
\* policy any call that has not run may run next.
C29_SequentialPolicyRunsInOrder ==
    /\ [][pc = "tools" /\ SequentialPolicy /\ pending' # pending =>
            \E i \in pending :
               /\ pending = i..Len(toolCalls)
               /\ pending' = (i + 1)..Len(toolCalls)
               /\ \A j \in (i + 1)..Len(toolCalls) : responses'[j] = ZeroResponse]_vars
    /\ [](pc = "tools" /\ SequentialPolicy /\ pending # {} => ENABLED SeqIter)
    /\ [](pc = "tools" /\ SequentialPolicy => \A i \in pending : ~ENABLED GoFunc(i))
    /\ [](pc = "tools" /\ ~SequentialPolicy =>
            /\ ~ENABLED SeqIter
            /\ \A i \in pending : ENABLED GoFunc(i))

\* parallel tools are disabled: the first call of a batch of two has failed,
\* the second has not started and is the next to run
C29_Witness ==
    /\ pc = "tools" /\ ~parallelTools
    /\ Len(toolCalls) = 2
    /\ pending = {2}
    /\ responses[1].Error = Error("charge declined", "")
    /\ responses[2] = ZeroResponse
    /\ ENABLED SeqIter


\* ------------------------------------------------------------------------
\* s is a prefix of t
IsPrefix(s, t) == Len(s) <= Len(t) /\ SubSeq(t, 1, Len(s)) = s

\* the history executeLoop is started with: the session's messages, then the
\* user input
InitialHistory ==
    (IF session = Nil THEN <<>> ELSE messagesFromMemory(session))
    \o <<Message("user", input, Nil)>>

\* C30: within a run the history only grows at its end: every step leaves
\* the earlier history as a prefix of the new one, so the history of every
\* step of the loop starts with the initial history (session messages, then
\* the user input). A turn that obtains a completion appends the assistant
\* reply before it branches; every completion call is given the whole
\* history of that moment, message by message in order; and the history in
\* the RunResult starts with the initial history.
C30_HistoryIsAppendOnly ==
    /\ [][IsPrefix(messages, messages')]_vars
    /\ [](pc \in {"loop", "branch", "tools", "save"} => IsPrefix(InitialHistory, messages))
    /\ [][providerCalls' # providerCalls /\ pc' = "branch" =>
            messages' = Append(messages, Message("assistant", completion'.Message.Content, Nil))]_vars
    /\ [](pc = "branch" =>
            messages[Len(messages)] = Message("assistant", completion.Message.Content, Nil))
    /\ [][providerCalls' # providerCalls =>
            /\ Len(lastCall'.messages) = Len(messages)
            /\ \A i \in 1..Len(messages) :
                  /\ lastCall'.messages[i].Role = messages[i].Role
                  /\ lastCall'.messages[i].Content = messages[i].Content]_vars
    /\ [](pc = "save" => /\ IsPrefix(InitialHistory, result.Messages)
                         /\ result.Messages = messages)

\* a run with a session returns after a tool turn and a final reply: the
\* stored exchange, the input, the tool-call reply, two tool messages and
\* the final reply
C30_Witness ==
    /\ pc = "save"
    /\ session # Nil
    /\ providerCalls = 2
    /\ Len(result.Messages) = 7
    /\ SubSeq(result.Messages, 1, 3) = InitialHistory
    /\ result.Messages[5].Role = "tool" /\ result.Messages[6].Role = "tool"
    /\ result.Messages[7] = Message("assistant", "ok", Nil)
    /\ Len(lastCall.messages) = 6


\* ------------------------------------------------------------------------
\* C31: whatever sequence of WithHandoffs options built an agent,
\* GetHandoff(n) finds an agent exactly when an agent of its Handoffs list
\* carries the name n; the agent found is in that list and carries that
\* name; a lookup that misses returns (nil, false); and no lookup changes an
\* agent or raises an error.
C31_GetHandoffFindsExactlyTheDeclaredNames ==
    [][lookup' # lookup =>
         LET a == lookup'.agent
             n == lookup'.name
             got == lookup'.got
         IN  /\ got.ok <=> \E b \in SeqToSet(agents[a].Handoffs) : agents[b].Name = n
             /\ got.ok => /\ got.agent \in SeqToSet(agents[a].Handoffs)
                          /\ agents[got.agent].Name = n
             /\ ~got.ok => got.agent = 0
             /\ agents' = agents
             /\ err' = NoError /\ pc' = pc]_vars

\* triage declares two handoffs of the same name: the lookup returns the
\* later one; and it declares no "report"
C31_Witness ==
    /\ agents[1].Handoffs = <<2, 3>>
    /\ agents[2].Name = "billing" /\ agents[3].Name = "billing"
    /\ lookup = [agent |-> 1, name |-> "billing", got |-> [agent |-> 3, ok |-> TRUE]]
    /\ ~GetHandoff(1, "report").ok


\* ------------------------------------------------------------------------
\* the first name met again on the path that leads to it, walking the
\* handoffs depth first in declaration order; every path carries its own
\* set of names
RECURSIVE FirstNameOnPath(_, _), FirstNameOnPathAmong(_, _)
FirstNameOnPath(a, path) ==
    IF agents[a].Name \in path
    THEN [found |-> TRUE, name |-> agents[a].Name]
    ELSE FirstNameOnPathAmong(agents[a].Handoffs, path \cup {agents[a].Name})

FirstNameOnPathAmong(handoffs, path) ==
    IF handoffs = <<>> THEN [found |-> FALSE, name |-> ""]
    ELSE LET r == FirstNameOnPath(Head(handoffs), path)
         IN  IF r.found THEN r ELSE FirstNameOnPathAmong(Tail(handoffs), path)

ReachesCycleCheck(a) ==
    /\ agents[a].Name # "" /\ agents[a].Model # ""
    /\ validateTools(agents[a].Tools) = NoError

\* C32: the cycle check of Validate behaves as a walk in which every path
\* carries its own set of names: it fails exactly when the depth-first walk
\* meets a name that is still on the current path, at once and with an
\* error naming that name; an acyclic graph of distinctly named agents, a
\* diamond included, passes; and the shared set of names is empty again
\* when Validate returns, with or without an error.
C32_VisitedHoldsTheCurrentPathOnly ==
    (pc = "validated" /\ ReachesCycleCheck(1)) =>
        LET r == validateHandoffs(1, {})
            f == FirstNameOnPath(1, {})
        IN  /\ validateResult = r.err
            /\ r.visited = {}
            /\ r.err = IF f.found THEN Error("circular handoff detected", f.name)
                       ELSE NoError
            /\ (DistinctNamesFrom(1) /\ ~HasCycleFrom(1)) => r.err = NoError

\* a diamond: report is reached through triage and through billing
C32_Witness ==
    /\ pc = "validated"
    /\ agents[1].Handoffs = <<2, 3>> /\ agents[2].Handoffs = <<3>>
    /\ agents[3].Handoffs = <<>>
    /\ DistinctNamesFrom(1)
    /\ validateResult = NoError
    /\ validateHandoffs(1, {}).visited = {}


\* ------------------------------------------------------------------------
\* the names of the agents whose validateHandoffs call is in progress
OnPathNames == {agents[walk.stack[i].agent].Name : i \in 1..Len(walk.stack)}

AgentNames == {agents[a].Name : a \in AgentIds}

\* C33: Validate terminates on every handoff graph, cyclic or not. While it
\* walks, no two calls in progress are on agents of the same name (it never
\* descends into an agent whose name is on the path), the map holds exactly
\* the names of the calls in progress, and the depth of the recursion never
\* exceeds the number of distinct agent names; what it returns is the
\* result of Agent.Validate.
C33_ValidateTerminates ==
    /\ [](pc = "walking" =>
            /\ \A i, j \in 1..Len(walk.stack) :
                  i # j => agents[walk.stack[i].agent].Name # agents[walk.stack[j].agent].Name
            /\ walk.visited = OnPathNames
            /\ Len(walk.stack) <= Cardinality(AgentNames))
    /\ [](IF pc = "validated" THEN validateResult = Validate(1) ELSE TRUE)
    /\ <>(pc = "validated")

\* the walk of a cyclic graph through all three agents has returned
C33_Witness ==
    /\ pc = "validated"
    /\ HasCycleFrom(1)
    /\ agents[1].Handoffs = <<2>> /\ agents[2].Handoffs = <<3>> /\ 1 \in Successors(3)
    /\ validateResult = Error("circular handoff detected", agents[1].Name)
    /\ walk = [stack |-> <<>>, visited |-> {}, err |-> validateResult]


\* ------------------------------------------------------------------------
\* the number of edges of the longest handoff path from a, in an acyclic graph
RECURSIVE LongestPathFrom(_)
LongestPathFrom(a) ==
    IF Successors(a) = {} THEN 0
    ELSE LET d == {LongestPathFrom(b) : b \in Successors(a)}
         IN  1 + CHOOSE m \in d : \A n \in d : n <= m

RootIsValid == IF pc = "build" THEN FALSE ELSE Validate(root) = NoError

\* C34: in a run on a root agent that passes Validate, the current agent is
\* always reachable from the root along handoff edges, every switch follows
\* a handoff edge of the agent that was current, the number of handoffs
\* made is at most the length of the longest handoff path from the root,
\* and once the current agent has changed from an agent it is never that
\* agent again.
C34_HandoffsFollowAPathFromTheRoot ==
    /\ [](RootIsValid => /\ currentAgent \in ReachFrom({root})
                         /\ switches <= LongestPathFrom(root))
    /\ [][(RootIsValid /\ currentAgent' # currentAgent) =>
             currentAgent' \in Successors(currentAgent)]_vars
    /\ \A x \in DOMAIN RunNames :
         []((RootIsValid /\ currentAgent = x) =>
               [](currentAgent # x => [](currentAgent # x)))

\* triage -> billing -> report was walked to its end by two handoffs
C34_Witness ==
    /\ pc = "done"
    /\ Validate(root) = NoError
    /\ agents[1].Handoffs = <<2>> /\ agents[2].Handoffs = <<3>>
    /\ currentAgent = 3 /\ switches = 2
    /\ LongestPathFrom(root) = 2


\* ------------------------------------------------------------------------
LastOf(msgs) == msgs[Len(msgs)]

\* what the guardrails of an agent say about one content
GateVerdict(agent, content) == validateGuardrailsLoop(agents[agent].Guardrails, content)

\* C35: the gate of a turn applies the guardrails of the agent current at
\* that turn to the content of the last message of the history, whatever
\* its role: a refusal ends the run with 'guardrail validation failed'
\* before the provider is called, otherwise the provider is called. The
\* last message at the gate is the user input on the first turn, the last
\* tool message after a dispatch, the previous agent's reply after a
\* handoff, and the reply itself after a non-terminal reply of a contract
\* agent.
C35_GateChecksLastMessageWithCurrentAgent ==
    /\ [][(pc = "loop" /\ pc' # "loop" /\ loopCondition /\ ~ctxCancelled) =>
             LET verdict == GateVerdict(currentAgent, LastOf(messages).Content)
             IN  IF verdict # NoError
                 THEN /\ pc' = "done"
                      /\ err' = Wrap("guardrail validation failed", verdict.arg, verdict.cause)
                      /\ providerCalls' = providerCalls
                 ELSE /\ providerCalls' = providerCalls + 1
                      /\ lastCall'.agent = currentAgent]_vars
    /\ [][(pc = "run" /\ pc' = "loop") =>
             /\ turn' = 0 /\ currentAgent' = root
             /\ LastOf(messages') = Message("user", input, Nil)]_vars
    /\ [][(pc = "tools" /\ pc' = "loop") =>
             /\ currentAgent' = currentAgent
             /\ LastOf(messages').Role = "tool"
             /\ LastOf(messages').tool_call_id = LastOf(toolCalls).ID]_vars
    /\ [][(pc = "branch" /\ pc' = "loop" /\ currentAgent' # currentAgent) =>
             /\ currentAgent' = GetHandoff(currentAgent, completion.Handoff).agent
             /\ LastOf(messages') = messageFromProviders(completion.Message)
             /\ lastCall.agent = currentAgent]_vars
    /\ [][(pc = "branch" /\ pc' = "loop" /\ currentAgent' = currentAgent) =>
             /\ agents[currentAgent].OutputType
             /\ completion.StructuredOutput = Nil
             /\ LastOf(messages') = messageFromProviders(completion.Message)]_vars

\* triage's guardrail refused the message of a failed tool call at the
\* gate of the second turn
C35_Witness ==
    /\ pc = "done"
    /\ err = Wrap("guardrail validation failed", "noFailures", "failure reported")
    /\ currentAgent = 1 /\ turn = 1 /\ providerCalls = 1
    /\ LastOf(messages).Role = "tool" /\ LastOf(messages).Content = "<nil>"


\* ------------------------------------------------------------------------
\* the errors executeLoop returns
LoopFailures ==
    {"guardrail validation failed", "completion failed", "handoff agent not found",
     "context cancelled", "maximum turns exceeded", "tool execution failed"}

\* C36: the session is written only by the step that follows a loop that
\* returned a result, and that step finds the session as it was when Run
\* was called (it is the first write of the Run); a Run that ends with an
\* error of the turn loop has returned no result and left the session as
\* it was.
C36_FailedLoopLeavesSessionAlone ==
    /\ [][session' # session =>
             /\ pc = "save" /\ pc' = "done"
             /\ result # NoResult /\ result' = result /\ err' = NoError
             /\ session \in Sessions]_vars
    /\ [](pc # "save" /\ ~(pc = "done" /\ err = NoError) => session \in Sessions)
    /\ []((pc = "done" /\ err # NoError /\ err.err \in LoopFailures) =>
             session \in Sessions /\ result = NoResult)

\* a Run with a stored history used up its turns after a tool dispatch
C36_Witness ==
    /\ pc = "done"
    /\ err = ErrMaxTurnsExceeded
    /\ session # Nil
    /\ session = <<Message("user", "earlier", Nil), Message("assistant", "answer", Nil)>>
    /\ providerCalls = maxTurns /\ maxTurns >= 1
    /\ Len(messages) > Len(session) + 2
    /\ result = NoResult


\* ------------------------------------------------------------------------
\* C37: a turn that starts with the caller's context already cancelled ends
\* the run with 'context cancelled' and no result, whatever the guardrails
\* of the current agent would say about the last message: the provider is
\* not called, no tool call is dispatched and the history, the metrics and
\* the current agent stay as they were; and a run only ends with
\* 'context cancelled' in that way.
C37_CancelledTurnStopsBeforeTheGate ==
    /\ [][(pc = "loop" /\ loopCondition /\ ctxCancelled) =>
             /\ pc' = "done"
             /\ err' = Error("context cancelled", "")
             /\ result' = NoResult
             /\ providerCalls' = providerCalls /\ lastCall' = lastCall
             /\ dispatched' = dispatched /\ pending' = {} /\ responses' = responses
             /\ guardrailCalls' = guardrailCalls
             /\ messages' = messages /\ metrics' = metrics
             /\ currentAgent' = currentAgent /\ turn' = turn]_vars
    /\ [][(pc # "done" /\ pc' = "done" /\ err'.err = "context cancelled") =>
             pc = "loop" /\ ctxCancelled /\ providerCalls = turn]_vars

\* the context was cancelled before the gate of billing's turn, whose
\* guardrail would have refused the reply that handed off to it
C37_Witness ==
    /\ pc = "done"
    /\ err = Error("context cancelled", "")
    /\ ctxCancelled
    /\ currentAgent = 2 /\ turn = 1 /\ providerCalls = 1
    /\ validateGuardrails(currentAgent, messages) # NoError


\* ------------------------------------------------------------------------
\* C38: when the current agent declares no output contract and the reply
\* carries structured output, the turn goes on as if it carried none: a
\* handoff is followed (or fails as not found), otherwise the tool calls
\* are dispatched, otherwise the run ends with the text of the reply as
\* final output; and no agent without a contract is ever recorded with
\* the structured value as final output.
C38_StructuredOutputNeedsAContract ==
    /\ [][(/\ pc = "branch"
           /\ ~agents[currentAgent].OutputType
           /\ completion.StructuredOutput # Nil) =>
             IF completion.Handoff # Nil
             THEN IF GetHandoff(currentAgent, completion.Handoff).ok
                  THEN /\ pc' = "loop" /\ result' = NoResult
                       /\ currentAgent' = GetHandoff(currentAgent, completion.Handoff).agent
                  ELSE /\ pc' = "done"
                       /\ err' = Error("handoff agent not found", completion.Handoff)
             ELSE IF Len(completion.ToolCalls) > 0
             THEN /\ pc' = "tools" /\ result' = NoResult
                  /\ toolCalls' = toolCallsFromProviders(completion.ToolCalls)
             ELSE /\ pc' = "save"
                  /\ result'.FinalOutput = completion.Message.Content
                  /\ result'.FinalOutput # completion.StructuredOutput]_vars
    /\ [](result # NoResult =>
             (result.FinalOutput = "json" => agents[result.Agent].OutputType))

\* triage, which declares no contract, got a reply that carried structured
\* output only: the run ended with the (empty) text of the reply
C38_Witness ==
    /\ pc = "save"
    /\ currentAgent = 1 /\ ~agents[currentAgent].OutputType
    /\ completion = Reply("", <<>>, Nil, "json")
    /\ result.FinalOutput = "" /\ result.Agent = 1


\* ------------------------------------------------------------------------
\* C39: the current agent starts as the root and changes only by a handoff,
\* to the target of that handoff; the Agent of a result is the agent that
\* was current, and that the provider was called with, when the terminal
\* reply was produced. It is therefore the root when no handoff happened
\* and the target of the last handoff otherwise, and it stays so until Run
\* returns the result.
C39_ResultAgentIsTheCurrentAgent ==
    /\ [][(pc = "run" /\ pc' = "loop") => currentAgent' = root /\ switches' = 0]_vars
    /\ [][currentAgent' # currentAgent =>
             /\ pc = "branch" /\ completion.Handoff # Nil
             /\ currentAgent' = GetHandoff(currentAgent, completion.Handoff).agent
             /\ agents[currentAgent'].Name = completion.Handoff
             /\ switches' = switches + 1]_vars
    /\ [][switches' # switches => currentAgent' # currentAgent \/ pc = "run"]_vars
    /\ [][(result = NoResult /\ result' # NoResult) =>
             /\ pc = "branch"
             /\ result'.Agent = currentAgent
             /\ lastCall.agent = currentAgent
             /\ LastOf(result'.Messages) = messageFromProviders(completion.Message)
             /\ (switches = 0 => result'.Agent = root)]_vars
    /\ []((pc = "done" /\ err = NoError) =>
             /\ result.Agent = currentAgent
             /\ (switches = 0 => result.Agent = root))

\* triage handed off to report, whose structured reply ended the run
C39_Witness ==
    /\ pc = "done" /\ err = NoError
    /\ root = 1 /\ switches = 1
    /\ result.Agent = 3 /\ result.FinalOutput = "json"
    /\ lastCall.agent = 3

====
